---------------------------- MODULE Spec2Model ----------------------------
(***************************************************************************)
(* The DuckDB retail warehouse of hedmana/duckdb-retail-pipeline as a      *)
(* state machine: the relational store (catalog and table contents), the   *)
(* three ingestions, the seven builders of src/models and run_pipeline.    *)
(*                                                                         *)
(* Representation.                                                         *)
(*  - A table is the multiset of its rows (a bag); tables whose rows are   *)
(*    distinct by construction (GROUP BY, generate_series,                 *)
(*    drop_duplicates) are sets of rows.  The ORDER BY of a CREATE TABLE   *)
(*    AS only fixes the physical order, which no query of the code reads.  *)
(*  - A nullable column holds NULL (the empty tuple) or <<v>>.             *)
(*  - A date is its day number, 2010-01-01 being day 0; a timestamp is     *)
(*    minutes since 2010-01-01 00:00.                                      *)
(*  - Amounts in GBP are integers (pence), rates are integers (rate times  *)
(*    100, with one integer for the float inf), amounts in EUR are exact   *)
(*    fractions of pence, inf, -inf or NaN.  The code holds them in        *)
(*    doubles: where a comparison of the code turns on the rounding of a   *)
(*    double (a sum that is 0 in pence, a ratio exactly at its             *)
(*    threshold), the model allows both results.                           *)
(***************************************************************************)
EXTENDS Integers, Sequences, FiniteSets, Bags, TLC

VARIABLES
    catalog,          \* names of the tables that exist in the store
    raw_retail_data,  \* staging: bag of transaction rows
    retail_columns,   \* raw_retail_data has the columns of column_mapping (a
                      \* workbook of blank sheets leaves source_sheet alone)
    raw_fx_rates,     \* staging: bag of [date, gbp_per_eur]
    raw_uk_holidays,  \* staging: set of holiday dates
    dim_calendar,     \* set of calendar rows
    dim_product,      \* set of product rows
    dim_customer,     \* set of customer rows
    fct_sales,        \* bag of line items
    daily_fx_rates,   \* bag of [date, gbp_per_eur]
    fct_sales_eur,    \* bag of converted line items
    agg_country_day,  \* set of country-day rows
    last,             \* the last call: [op, exc, warnings]
    pc,               \* position of run_pipeline
    raised,           \* the exception run_pipeline let through to its caller
    ieee_floating_point_ops  \* DuckDB's setting of that name: x / 0 of DOUBLEs is
                      \* inf or NaN when on, NULL when off or not there

vars == <<catalog, raw_retail_data, retail_columns, raw_fx_rates, raw_uk_holidays,
          dim_calendar, dim_product, dim_customer, fct_sales, daily_fx_rates,
          fct_sales_eur, agg_country_day, last, pc, raised,
          ieee_floating_point_ops>>

-----------------------------------------------------------------------------
(* Bounds of the model *)

\* most rows of raw_retail_data
MaxRows == 2
\* most observations of raw_fx_rates
MaxFx == 3
\* most rows of the staging snapshot an out-of-date dimension was built from
MaxStaleRows == 1
\* most rows of raw_retail_data when only the product and customer dimensions are built
MaxDimRows == 3

-----------------------------------------------------------------------------
(* SQL values *)

NULL == <<>>

V(x) == <<x>>

\* COALESCE(c, d) of a nullable column
COALESCE(c, d) == IF c = NULL THEN d ELSE c[1]

RECURSIVE SetSum(_, _)
\* SUM of f[x] over the elements of a finite set
SetSum(f, S) ==
    IF S = {} THEN 0
    ELSE LET x == CHOOSE y \in S : TRUE IN f[x] + SetSum(f, S \ {x})

\* the bag with the one row r
One(r) == SetToBag({r})

\* the rows of bag B that satisfy P, with their multiplicities
BagWhere(B, P(_)) == [r \in {x \in DOMAIN B : P(x)} |-> B[r]]

\* COUNT(*) of the rows of B that satisfy P
CountWhere(B, P(_)) == BagCardinality(BagWhere(B, P))

\* SUM(F(row)) over the rows of bag B
BagSum(B, F(_)) == SetSum([r \in DOMAIN B |-> B[r] * F(r)], DOMAIN B)

\* bag of Row(r) for r in B, each with Mult(r) copies per copy of r (a join's fan-out)
BagJoin(B, Row(_), Mult(_)) ==
    LET src == {r \in DOMAIN B : B[r] * Mult(r) > 0}
    IN  [y \in {Row(r) : r \in src} |->
            SetSum([r \in src |-> B[r] * Mult(r)], {r \in src : Row(r) = y})]

-----------------------------------------------------------------------------
(* Dates: datetime.date and DuckDB's date functions *)

Years == 2010..2012

IsLeap(y) == (y % 4 = 0 /\ y % 100 # 0) \/ y % 400 = 0

DaysInMonth(y, m) ==
    IF m = 2 THEN (IF IsLeap(y) THEN 29 ELSE 28)
    ELSE IF m \in {4, 6, 9, 11} THEN 30 ELSE 31

DaysInYear(y) == IF IsLeap(y) THEN 366 ELSE 365

\* the number of days of the years 1 .. y - 1
DaysBeforeYear(y) ==
    365 * (y - 1) + ((y - 1) \div 4) - ((y - 1) \div 100) + ((y - 1) \div 400)

\* date(y, m, d) as a day number: negative before 2010
Date(y, m, d) ==
    DaysBeforeYear(y) - DaysBeforeYear(2010)
    + SetSum([k \in 1..(m - 1) |-> DaysInMonth(y, k)], 1..(m - 1))
    + (d - 1)

\* the days of 2010..2012
Days == Date(2010, 1, 1)..Date(2012, 12, 31)

\* (year, month) of every day, computed once
YearMonth ==
    [n \in Days |->
        LET y == CHOOSE z \in Years : Date(z, 1, 1) <= n /\ n < Date(z + 1, 1, 1)
            m == CHOOSE k \in 1..12 :
                    Date(y, k, 1) <= n /\ n < Date(y, k, 1) + DaysInMonth(y, k)
        IN  [year |-> y, month |-> m]]

YearOf(n) == YearMonth[n].year

MonthOf(n) == YearMonth[n].month

\* EXTRACT(dow FROM d): Sunday = 0 .. Saturday = 6 (2010-01-01 was a Friday)
Dow(n) == (5 + n) % 7

\* the Thursday of the ISO week of n
IsoThursday(n) == n - ((Dow(n) + 6) % 7) + 3

IsoYear(n) == YearOf(IsoThursday(n))

IsoWeek(n) == ((IsoThursday(n) - Date(IsoYear(n), 1, 1)) \div 7) + 1

DayName(n) ==
    <<"Sunday", "Monday", "Tuesday", "Wednesday", "Thursday", "Friday",
      "Saturday">>[Dow(n) + 1]

MonthName(n) ==
    <<"January", "February", "March", "April", "May", "June", "July", "August",
      "September", "October", "November", "December">>[MonthOf(n)]

\* a timestamp: minutes since 2010-01-01 00:00
Timestamp(y, m, d, hh, mm) == Date(y, m, d) * 1440 + hh * 60 + mm

\* DATE(ts) of a nullable timestamp: NULL stays NULL
DATE(ts) == IF ts = NULL THEN NULL ELSE V(ts[1] \div 1440)

-----------------------------------------------------------------------------
(* The store *)

StagingTables == {"raw_retail_data", "raw_fx_rates", "raw_uk_holidays"}

OutputRelations ==
    {"dim_calendar", "dim_product", "dim_customer", "fct_sales",
     "daily_fx_rates", "fct_sales_eur", "agg_country_day"}

NoExc == "none"

\* what a call left behind: the exception it raised and the warnings it logged
Outcome(op, exc, warnings) == [op |-> op, exc |-> exc, warnings |-> warnings]

-----------------------------------------------------------------------------
(* create_dim_calendar *)

\* the non-null DATE(invoice_ts) of raw_retail_data
RetailDates(raw) ==
    {DATE(r.invoice_ts)[1] : r \in {x \in DOMAIN raw : x.invoice_ts # NULL}}

Min(S) == CHOOSE x \in S : \A y \in S : x <= y

Max(S) == CHOOSE x \in S : \A y \in S : y <= x

\* first day of the month of min_date
StartDate(min_date) == Date(YearOf(min_date), MonthOf(min_date), 1)

\* first day of the month after max_date: the "- timedelta(days=1)" left out
EndDateNextMonth(max_date) ==
    IF MonthOf(max_date) = 12
    THEN Date(YearOf(max_date) + 1, 1, 1)
    ELSE Date(YearOf(max_date), MonthOf(max_date) + 1, 1)

\* last day of the month of max_date
EndDate(max_date) ==
    IF MonthOf(max_date) = 12
    THEN Date(YearOf(max_date) + 1, 1, 1) - 1
    ELSE Date(YearOf(max_date), MonthOf(max_date) + 1, 1) - 1

\* generate_series(start, end, INTERVAL '1 day') skipping every other day
GenerateSeriesEveryOtherDay(start, end) == {d \in start..end : (d - start) % 2 = 0}

\* generate_series(start, end, INTERVAL '1 day')
GenerateSeries(start, end) == start..end

\* a row whose weekend test uses the ISO day numbers (Saturday = 6, Sunday = 7) on
\* EXTRACT(dow ...), where Sunday is 0
CalendarRowIsoWeekend(d, holiday) ==
    [date |-> d,
     is_weekend |-> Dow(d) \in {6, 7},
     iso_year |-> IsoYear(d),
     iso_week |-> IsoWeek(d),
     month |-> MonthOf(d),
     year |-> YearOf(d),
     day_of_week |-> Dow(d),
     day_name |-> DayName(d),
     month_name |-> MonthName(d),
     is_uk_holiday |-> holiday]

\* one row of dim_calendar
CalendarRow(d, holiday) ==
    [date |-> d,
     is_weekend |-> Dow(d) \in {0, 6},
     iso_year |-> IsoYear(d),
     iso_week |-> IsoWeek(d),
     month |-> MonthOf(d),
     year |-> YearOf(d),
     day_of_week |-> Dow(d),
     day_name |-> DayName(d),
     month_name |-> MonthName(d),
     is_uk_holiday |-> holiday]

\* the unflagged row of every day whose ISO week lies in 2010..2012, computed once
CalendarRows ==
    [d \in Date(2010, 1, 4)..Date(2012, 12, 28) |-> CalendarRow(d, FALSE)]

\* the table after CREATE TABLE and ALTER TABLE: no date flagged yet
CalendarUnflagged(raw) ==
    {CalendarRows[d] :
        d \in GenerateSeries(StartDate(Min(RetailDates(raw))),
                             EndDate(Max(RetailDates(raw))))}

\* the table after the UPDATE that flags the holidays
CalendarFlagged(raw, holidays) ==
    LET cal == CalendarUnflagged(raw)
        lo == Min({c.date : c \in cal})
        hi == Max({c.date : c \in cal})
        flagged == {h \in holidays : lo <= h /\ h <= hi}
    IN  {[c EXCEPT !.is_uk_holiday = (c.date \in flagged)] : c \in cal}

\* LAG(date) OVER (ORDER BY date): the date of the previous row, NULL on the first
Lag(d, dates) ==
    IF d - 1 \in dates THEN V(d - 1)
    ELSE IF \A e \in dates : d <= e THEN NULL
    ELSE V(Max({e \in dates : e < d}))

\* gap_check: the rows whose date is more than one day after the previous date
GapCount(cal) ==
    LET dates == {c.date : c \in cal}
    IN  Cardinality({d \in dates :
            Lag(d, dates) # NULL /\ d - Lag(d, dates)[1] > 1})

GapWarning(n) == <<"Found gaps in calendar sequence", n>>

\* how the UPDATE that flags the holidays ends.  holiday_date of an empty
\* raw_uk_holidays has the type DuckDB gives an empty object column, and
\* "date IN (SELECT holiday_date ...)" binds or not with that type; when it does
\* not, the table stays as CREATE TABLE and ALTER TABLE left it, no date flagged
HolidayUpdateOutcomes(holidays) ==
    IF holidays = {} THEN {NoExc, "BinderException"} ELSE {NoExc}

create_dim_calendar ==
    /\ pc = "idle"
    /\ IF "raw_retail_data" \notin catalog
       THEN /\ UNCHANGED <<catalog, dim_calendar>>
            /\ last' = Outcome("create_dim_calendar", "CatalogException", {})
       ELSE IF ~retail_columns
       THEN \* the first SELECT finds no column invoice_ts, before the DROP
            /\ UNCHANGED <<catalog, dim_calendar>>
            /\ last' = Outcome("create_dim_calendar", "BinderException", {})
       ELSE IF RetailDates(raw_retail_data) = {}
       THEN \* min_date is None: min_date.year raises before the DROP
            /\ UNCHANGED <<catalog, dim_calendar>>
            /\ last' = Outcome("create_dim_calendar", "AttributeError", {})
       ELSE IF "raw_uk_holidays" \notin catalog
       THEN \* the UPDATE raises after CREATE TABLE and ALTER TABLE
            /\ catalog' = catalog \cup {"dim_calendar"}
            /\ dim_calendar' = CalendarUnflagged(raw_retail_data)
            /\ last' = Outcome("create_dim_calendar", "CatalogException", {})
       ELSE /\ catalog' = catalog \cup {"dim_calendar"}
            /\ dim_calendar' = CalendarFlagged(raw_retail_data, raw_uk_holidays)
            /\ \E exc \in HolidayUpdateOutcomes(raw_uk_holidays) :
                  last' = Outcome("create_dim_calendar", exc,
                                  IF exc = NoExc /\ GapCount(dim_calendar') > 0
                                  THEN {GapWarning(GapCount(dim_calendar'))} ELSE {})
    /\ UNCHANGED <<raw_retail_data, retail_columns, raw_fx_rates,
                   raw_uk_holidays, dim_product, dim_customer, fct_sales,
                   daily_fx_rates, fct_sales_eur, agg_country_day, pc, raised,
                   ieee_floating_point_ops>>

-----------------------------------------------------------------------------
(* create_dim_product, create_dim_customer *)

\* MODE(col): the values an engine may return, any of the most frequent ones
Mode(B, Col(_)) ==
    LET vals == {Col(r) : r \in DOMAIN B}
        n(v) == CountWhere(B, LAMBDA r : Col(r) = v)
    IN  {v \in vals : \A w \in vals : n(w) <= n(v)}

\* MIN / MAX of DATE(invoice_ts) over a group: NULL when no row has a timestamp
FirstSeen(B) == IF RetailDates(B) = {} THEN NULL ELSE V(Min(RetailDates(B)))

LastSeen(B) == IF RetailDates(B) = {} THEN NULL ELSE V(Max(RetailDates(B)))

\* the filter without stock_code != 'nan'
ValidStockCodeKeepsNan(code) == code # ""

\* WHERE stock_code IS NOT NULL AND stock_code != '' AND stock_code != 'nan'
\* (stock_code is never NULL: ingest_retail_data stores str(cell), 'nan' for none)
ValidStockCode(code) == code # "" /\ code # "nan"

\* dim_product with ANY_VALUE(description) in place of MODE(description)
DimProductAnyDescription(raw) ==
    LET codes == {r.stock_code : r \in {x \in DOMAIN raw : ValidStockCode(x.stock_code)}}
        group(c) == BagWhere(raw, LAMBDA r : r.stock_code = c)
        any == [c \in codes |-> {r.description : r \in DOMAIN group(c)}]
    IN  {{[stock_code |-> c,
           description |-> pick[c],
           first_seen |-> FirstSeen(group(c)),
           last_seen |-> LastSeen(group(c))] : c \in codes} :
         pick \in {f \in [codes -> UNION {any[c] : c \in codes}] :
                      \A c \in codes : f[c] \in any[c]}}

\* the tables CREATE TABLE dim_product AS ... may produce
DimProductOutcomes(raw) ==
    LET codes == {r.stock_code : r \in {x \in DOMAIN raw : ValidStockCode(x.stock_code)}}
        group(c) == BagWhere(raw, LAMBDA r : r.stock_code = c)
        modes == [c \in codes |-> Mode(group(c), LAMBDA r : r.description)]
    IN  {{[stock_code |-> c,
           description |-> pick[c],
           first_seen |-> FirstSeen(group(c)),
           last_seen |-> LastSeen(group(c))] : c \in codes} :
         pick \in {f \in [codes -> UNION {modes[c] : c \in codes}] :
                      \A c \in codes : f[c] \in modes[c]}}

create_dim_product ==
    /\ pc = "idle"
    /\ IF "raw_retail_data" \notin catalog
       THEN \* DROP TABLE IF EXISTS ran, CREATE TABLE raised
            /\ catalog' = catalog \ {"dim_product"}
            /\ dim_product' = {}
            /\ last' = Outcome("create_dim_product", "CatalogException", {})
       ELSE IF ~retail_columns
       THEN \* CREATE TABLE finds none of the columns it selects, after the DROP
            /\ catalog' = catalog \ {"dim_product"}
            /\ dim_product' = {}
            /\ last' = Outcome("create_dim_product", "BinderException", {})
       ELSE /\ catalog' = catalog \cup {"dim_product"}
            /\ dim_product' \in DimProductOutcomes(raw_retail_data)
            /\ last' = Outcome("create_dim_product", NoExc, {})
    /\ UNCHANGED <<raw_retail_data, retail_columns, raw_fx_rates,
                   raw_uk_holidays, dim_calendar, dim_customer, fct_sales,
                   daily_fx_rates, fct_sales_eur, agg_country_day, pc, raised,
                   ieee_floating_point_ops>>

\* the surrogate key of the unknown customer
UNKNOWN_CUSTOMER == -1

\* MODE(country) for every group, the unknown customer's included
CustomerCountryKeepsMode(id, group) == Mode(group, LAMBDA r : r.country)

\* CASE WHEN COALESCE(customer_id, -1) = -1 THEN 'UNKNOWN' ELSE MODE(country) END
CustomerCountry(id, group) ==
    IF id = UNKNOWN_CUSTOMER THEN {"UNKNOWN"} ELSE Mode(group, LAMBDA r : r.country)

\* the grouping key COALESCE(customer_id, -1)
CustomerKey(r) == COALESCE(r.customer_id, UNKNOWN_CUSTOMER)

\* the tables CREATE TABLE dim_customer AS ... may produce
DimCustomerOutcomes(raw) ==
    LET ids == {CustomerKey(r) : r \in DOMAIN raw}
        group(i) == BagWhere(raw, LAMBDA r : CustomerKey(r) = i)
        modes == [i \in ids |-> CustomerCountry(i, group(i))]
    IN  {{[customer_id |-> i, country |-> pick[i]] : i \in ids} :
         pick \in {f \in [ids -> UNION {modes[i] : i \in ids}] :
                      \A i \in ids : f[i] \in modes[i]}}

create_dim_customer ==
    /\ pc = "idle"
    /\ IF "raw_retail_data" \notin catalog
       THEN \* DROP TABLE IF EXISTS ran, CREATE TABLE raised
            /\ catalog' = catalog \ {"dim_customer"}
            /\ dim_customer' = {}
            /\ last' = Outcome("create_dim_customer", "CatalogException", {})
       ELSE IF ~retail_columns
       THEN \* CREATE TABLE finds none of the columns it selects, after the DROP
            /\ catalog' = catalog \ {"dim_customer"}
            /\ dim_customer' = {}
            /\ last' = Outcome("create_dim_customer", "BinderException", {})
       ELSE /\ catalog' = catalog \cup {"dim_customer"}
            /\ dim_customer' \in DimCustomerOutcomes(raw_retail_data)
            /\ last' = Outcome("create_dim_customer", NoExc, {})
    /\ UNCHANGED <<raw_retail_data, retail_columns, raw_fx_rates,
                   raw_uk_holidays, dim_calendar, dim_product, fct_sales,
                   daily_fx_rates, fct_sales_eur, agg_country_day, pc, raised,
                   ieee_floating_point_ops>>

-----------------------------------------------------------------------------
(* create_fct_sales *)

\* WHERE r.stock_code IS NOT NULL AND r.stock_code != '' AND r.stock_code != 'nan'
\*   AND r.unit_price_gbp IS NOT NULL AND r.qty IS NOT NULL
FactEligible(r) ==
    ValidStockCode(r.stock_code) /\ r.unit_price_gbp # NULL /\ r.qty # NULL

\* the dim_calendar rows r joins to: DATE(r.invoice_ts) = c.date
CalendarMatches(r, cal) == {c \in cal : DATE(r.invoice_ts) = V(c.date)}

\* the dim_product rows r joins to: r.stock_code = p.stock_code
ProductMatches(r, prod) == {p \in prod : r.stock_code = p.stock_code}

\* a join on the raw customer_id, which matches no row when it is NULL
CustomerMatchesRawId(r, cust) == {cu \in cust : r.customer_id = V(cu.customer_id)}

\* the dim_customer rows r joins to: COALESCE(r.customer_id, -1) = cu.customer_id
CustomerMatches(r, cust) == {cu \in cust : CustomerKey(r) = cu.customer_id}

\* the SELECT list of fct_sales
SalesRow(r) ==
    [invoice_no |-> r.invoice_no,
     stock_code |-> r.stock_code,
     customer_id |-> CustomerKey(r),
     date |-> DATE(r.invoice_ts)[1],
     qty |-> r.qty[1],
     unit_price_gbp |-> r.unit_price_gbp[1],
     gross_amount_gbp |-> r.qty[1] * r.unit_price_gbp[1]]

\* the number of fct_sales rows one staged row yields, with a LEFT JOIN to dim_product
SalesFanOutLeftJoinProduct(r, cal, prod, cust) ==
    IF FactEligible(r)
    THEN Cardinality(CalendarMatches(r, cal)) * Cardinality(CustomerMatches(r, cust))
    ELSE 0

\* the joins with a filter r.qty > 0 added, which removes the cancellations
SalesFanOutDropsCancellations(r, cal, prod, cust) ==
    IF FactEligible(r) /\ r.qty[1] > 0
    THEN Cardinality(CalendarMatches(r, cal)) * Cardinality(ProductMatches(r, prod))
            * Cardinality(CustomerMatches(r, cust))
    ELSE 0

\* the number of fct_sales rows one staged row yields: the three INNER JOINs
SalesFanOut(r, cal, prod, cust) ==
    IF FactEligible(r)
    THEN Cardinality(CalendarMatches(r, cal)) * Cardinality(ProductMatches(r, prod))
            * Cardinality(CustomerMatches(r, cust))
    ELSE 0

\* an INSERT into the fct_sales left by the previous run, without the DROP TABLE
FctSalesAppends(raw, cal, prod, cust) ==
    fct_sales (+) BagJoin(raw, SalesRow, LAMBDA r : SalesFanOut(r, cal, prod, cust))

\* CREATE TABLE fct_sales AS SELECT ...
FctSales(raw, cal, prod, cust) ==
    BagJoin(raw, SalesRow, LAMBDA r : SalesFanOut(r, cal, prod, cust))

\* orphan_check, kept where count > 0
IntegrityIssues(fct, cal, prod, cust) ==
    LET counts ==
            {<<"Missing calendar",
               CountWhere(fct, LAMBDA f : \A c \in cal : c.date # f.date)>>,
             <<"Missing product",
               CountWhere(fct, LAMBDA f : \A p \in prod : p.stock_code # f.stock_code)>>,
             <<"Missing customer",
               CountWhere(fct, LAMBDA f : \A cu \in cust : cu.customer_id # f.customer_id)>>}
    IN  {w \in counts : w[2] > 0}

create_fct_sales ==
    /\ pc = "idle"
    /\ IF ~({"raw_retail_data", "dim_calendar"} \subseteq catalog)
       THEN \* DROP TABLE IF EXISTS ran, CREATE TABLE raised: the first join of
            \* the FROM clause is bound first, its two tables before its ON
            /\ catalog' = catalog \ {"fct_sales"}
            /\ fct_sales' = EmptyBag
            /\ last' = Outcome("create_fct_sales", "CatalogException", {})
       ELSE IF ~retail_columns
       THEN \* ON DATE(r.invoice_ts) = c.date of the first join: raw_retail_data
            \* has no invoice_ts, and dim_product is not looked up before that
            /\ catalog' = catalog \ {"fct_sales"}
            /\ fct_sales' = EmptyBag
            /\ last' = Outcome("create_fct_sales", "BinderException", {})
       ELSE IF ~({"dim_product", "dim_customer"} \subseteq catalog)
       THEN \* the later joins: their tables are looked up after the first ON
            /\ catalog' = catalog \ {"fct_sales"}
            /\ fct_sales' = EmptyBag
            /\ last' = Outcome("create_fct_sales", "CatalogException", {})
       ELSE /\ catalog' = catalog \cup {"fct_sales"}
            /\ fct_sales' = FctSales(raw_retail_data, dim_calendar, dim_product, dim_customer)
            /\ last' =
                 IF fct_sales' = EmptyBag
                 THEN \* SUM over no rows is None: the f"{sales_gbp:,.2f}" of the log raises
                      Outcome("create_fct_sales", "TypeError", {})
                 ELSE Outcome("create_fct_sales", NoExc,
                              IntegrityIssues(fct_sales', dim_calendar, dim_product,
                                              dim_customer))
    /\ UNCHANGED <<raw_retail_data, retail_columns, raw_fx_rates,
                   raw_uk_holidays, dim_calendar, dim_product, dim_customer,
                   daily_fx_rates, fct_sales_eur, agg_country_day, pc, raised,
                   ieee_floating_point_ops>>

-----------------------------------------------------------------------------
(* create_daily_fx_rates *)

\* the bag of the elements of a sequence
BagOfSeq(s) ==
    [y \in {s[i] : i \in 1..Len(s)} |-> Cardinality({i \in 1..Len(s) : s[i] = y})]

\* the orders in which a scan may meet the rows of bag B
Orderings(B) ==
    {s \in [1..BagCardinality(B) -> DOMAIN B] : BagOfSeq(s) = B}

\* date_series LEFT JOIN raw_fx_rates ON ds.date = fx.date, for one date of the
\* series: the rates of that date, or one NULL when there is none
JoinedRates(d, fx) ==
    LET obs == BagWhere(fx, LAMBDA x : x.date = d)
    IN  IF obs = EmptyBag THEN One(NULL)
        ELSE BagJoin(obs, LAMBDA x : x.gbp_per_eur, LAMBDA x : 1)

\* LAST_VALUE(gbp_per_eur IGNORE NULLS) OVER (ORDER BY date ROWS BETWEEN UNBOUNDED
\* PRECEDING AND CURRENT ROW) at row i of the rows s of one date, carry being the
\* value at the last row of the dates before
LastValue(carry, s, i) ==
    LET seen == {k \in 1..i : s[k] # NULL}
    IN  IF seen = {} THEN carry ELSE s[Max(seen)]

RECURSIVE ForwardFill(_, _, _, _)
\* fx_with_forward_fill for the dates d..hi: every result the window may give, rows
\* of one date being scanned in any order
ForwardFill(d, hi, carry, fx) ==
    IF d > hi THEN {EmptyBag}
    ELSE UNION {
            {BagOfSeq([i \in 1..Len(s) |->
                        [date |-> d, gbp_per_eur |-> LastValue(carry, s, i)]]) (+) rest :
                rest \in ForwardFill(d + 1, hi, LastValue(carry, s, Len(s)), fx)} :
            s \in Orderings(JoinedRates(d, fx))}

\* generate_series starts at MIN(date) of fct_sales
SeriesStart(fct, fx) == Min({f.date : f \in DOMAIN fct})

\* the tables CREATE TABLE daily_fx_rates AS ... may produce
DailyFxOutcomes(fct, fx) ==
    LET lo == SeriesStart(fct, fx)
        hi == Max({f.date : f \in DOMAIN fct})
    IN  {BagJoin(BagWhere(t, LAMBDA x : x.gbp_per_eur # NULL),
                 LAMBDA x : [date |-> x.date, gbp_per_eur |-> x.gbp_per_eur[1]],
                 LAMBDA x : 1) : t \in ForwardFill(lo, hi, NULL, fx)}

\* missing_dates: the fct_sales rows with no daily_fx_rates row
MissingDates(fct, dfx) ==
    CountWhere(fct, LAMBDA f : \A x \in DOMAIN dfx : x.date # f.date)

FxWarning(n) == <<"Missing FX rates for sales transactions", n>>

create_daily_fx_rates ==
    /\ pc = "idle"
    /\ IF "fct_sales" \notin catalog
       THEN /\ catalog' = catalog \ {"daily_fx_rates"}
            /\ daily_fx_rates' = EmptyBag
            /\ last' = Outcome("create_daily_fx_rates", "CatalogException", {})
       ELSE IF "raw_fx_rates" \notin catalog
       THEN \* CREATE TABLE looks up the table of its LEFT JOIN before it casts
            \* the DATE literals
            /\ catalog' = catalog \ {"daily_fx_rates"}
            /\ daily_fx_rates' = EmptyBag
            /\ last' = Outcome("create_daily_fx_rates", "CatalogException", {})
       ELSE IF fct_sales = EmptyBag
       THEN \* MIN(date) is None and DATE 'None' is no date
            /\ catalog' = catalog \ {"daily_fx_rates"}
            /\ daily_fx_rates' = EmptyBag
            /\ last' = Outcome("create_daily_fx_rates", "ConversionException", {})
       ELSE /\ catalog' = catalog \cup {"daily_fx_rates"}
            /\ daily_fx_rates' \in DailyFxOutcomes(fct_sales, raw_fx_rates)
            /\ LET missing == MissingDates(fct_sales, daily_fx_rates')
                   warnings == IF missing > 0 THEN {FxWarning(missing)} ELSE {}
               IN  last' =
                     IF daily_fx_rates' = EmptyBag
                     THEN \* MIN(gbp_per_eur) is None: f"{min_rate:.4f}" raises
                          Outcome("create_daily_fx_rates", "TypeError", warnings)
                     ELSE Outcome("create_daily_fx_rates", NoExc, warnings)
    /\ UNCHANGED <<raw_retail_data, retail_columns, raw_fx_rates,
                   raw_uk_holidays, dim_calendar, dim_product, dim_customer,
                   fct_sales, fct_sales_eur, agg_country_day, pc, raised,
                   ieee_floating_point_ops>>

-----------------------------------------------------------------------------
(* create_fct_sales_eur *)

RECURSIVE GCD(_, _)
GCD(a, b) == IF b = 0 THEN a ELSE GCD(b, a % b)

Abs(x) == IF x < 0 THEN -x ELSE x

\* the fraction n / d (d > 0) in lowest terms
Frac(n, d) ==
    LET g == GCD(Abs(n), d)
    IN  [num |-> n \div g, den |-> d \div g]

\* the DOUBLEs that are no number: a den of 0 sets them apart from the fractions
PlusInfinity == [num |-> 1, den |-> 0]

MinusInfinity == [num |-> -1, den |-> 0]

NotANumber == [num |-> 0, den |-> 0]

\* float('inf') as a rate in hundredths: an integer above every rate (and its
\* negation for float('-inf'))
Infinity == 1000000

\* amount_gbp / gbp_per_eur of DOUBLEs, amount in pence and rate in hundredths:
\* - a rate that is a number other than 0 gives the quotient;
\* - a rate of inf gives 0;
\* - a rate of 0 gives NULL, or with ieee_floating_point_ops inf, -inf or NaN by
\*   the sign of the amount
ToEur(amount, rate) ==
    IF Abs(rate) = Infinity THEN V(Frac(0, 1))
    ELSE IF rate > 0 THEN V(Frac(amount * 100, rate))
    ELSE IF rate < 0 THEN V(Frac(-(amount * 100), -rate))
    ELSE IF ~ieee_floating_point_ops THEN NULL
    ELSE IF amount > 0 THEN V(PlusInfinity)
    ELSE IF amount < 0 THEN V(MinusInfinity)
    ELSE V(NotANumber)

\* the settings of ieee_floating_point_ops a store with the FX staging fx is
\* taken with.  The setting is read by a division by 0 alone: both settings
\* where a rate of 0 is staged, one setting elsewhere
DivisionSettings(fx) ==
    IF \E x \in DOMAIN fx : x.gbp_per_eur = V(0) THEN BOOLEAN ELSE {TRUE}

\* the SELECT list of fct_sales_eur
EurRow(f, x) ==
    [invoice_no |-> f.invoice_no,
     stock_code |-> f.stock_code,
     customer_id |-> f.customer_id,
     date |-> f.date,
     qty |-> f.qty,
     unit_price_gbp |-> f.unit_price_gbp,
     unit_price_eur |-> ToEur(f.unit_price_gbp, x.gbp_per_eur),
     gross_amount_gbp |-> f.gross_amount_gbp,
     gross_amount_eur |-> ToEur(f.gross_amount_gbp, x.gbp_per_eur),
     fx_rate_used |-> x.gbp_per_eur]

\* fct_sales f INNER JOIN daily_fx_rates fx ON f.date = fx.date
FctSalesEur(fct, dfx) ==
    LET pairs == {p \in (DOMAIN fct) \X (DOMAIN dfx) : p[1].date = p[2].date}
    IN  [y \in {EurRow(p[1], p[2]) : p \in pairs} |->
            SetSum([p \in pairs |-> fct[p[1]] * dfx[p[2]]],
                   {p \in pairs : EurRow(p[1], p[2]) = y})]

\* the characters of invoice numbers, in the order of their code points
InvoiceAlphabet == <<"0", "1", "2", "3", "4", "5", "6", "7", "8", "9", "C">>

CodePoint(c) == CHOOSE k \in 1..Len(InvoiceAlphabet) : InvoiceAlphabet[k] = c

RECURSIVE StringLess(_, _)
\* a < b of two VARCHARs, each the sequence of its characters
StringLess(a, b) ==
    IF b = <<>> THEN FALSE
    ELSE IF a = <<>> THEN TRUE
    ELSE IF Head(a) = Head(b) THEN StringLess(Tail(a), Tail(b))
    ELSE CodePoint(Head(a)) < CodePoint(Head(b))

\* ORDER BY ... LIMIT 5 over the rows S, row r taken mult[r] times and sorted by
\* rank[r], rows of one rank in any order: whether the five rows hold a row of
\* bad, as the set of the answers the engine may give
LimitFiveHolds(S, mult, rank, bad) ==
    LET Before(r) == SetSum(mult, {x \in S : rank[x] < rank[r]})
        Ties(r) == SetSum(mult, {x \in S : rank[x] = rank[r]})
        OtherTies(r) == SetSum(mult, {x \in S \ bad : rank[x] = rank[r]})
        may == \E r \in S \cap bad : Before(r) < 5
        must == \E r \in S \cap bad :
                   \/ Before(r) + Ties(r) <= 5
                   \/ Before(r) < 5 /\ OtherTies(r) < 5 - Before(r)
    IN  {b \in BOOLEAN : (b => may) /\ (~b => ~must)}

\* unit_price_eur IS NULL OR gross_amount_eur IS NULL OR fx_rate_used IS NULL
\* (fx_rate_used is never NULL: daily_fx_rates keeps no NULL rate)
ConversionError(e) == e.unit_price_eur = NULL \/ e.gross_amount_eur = NULL

\* sample_conversions holds a row with a NULL unit_price_eur or gross_amount_eur:
\* ORDER BY date, invoice_no LIMIT 5
SampleHoldsNull(eur) ==
    LET rows == DOMAIN eur
        Less(x, r) ==
            \/ x.date < r.date
            \/ x.date = r.date /\ StringLess(x.invoice_no, r.invoice_no)
    IN  LimitFiveHolds(rows, eur,
                       [r \in rows |-> Cardinality({x \in rows : Less(x, r)})],
                       {r \in rows : ConversionError(r)})

\* currency_comparison: sales_eur, returns_eur or net_sales_eur is None.  A SUM
\* skips the NULLs and is NULL when it added no value; the CASE gives 0 for the
\* rows of the other sign
ComparisonHoldsNone(eur) ==
    \/ \A e \in DOMAIN eur : e.qty > 0 /\ e.gross_amount_eur = NULL
    \/ \A e \in DOMAIN eur : e.qty < 0 /\ e.gross_amount_eur = NULL
    \/ \A e \in DOMAIN eur : e.gross_amount_eur = NULL

ConversionWarning(n) == <<"Found conversion errors (NULL values)", n>>

\* a create_fct_sales_eur that also deletes from fct_sales the rows it converted
create_fct_sales_eur_consumes_fct_sales ==
    /\ pc = "idle"
    /\ {"fct_sales", "daily_fx_rates"} \subseteq catalog
    /\ catalog' = catalog \cup {"fct_sales_eur"}
    /\ fct_sales_eur' = FctSalesEur(fct_sales, daily_fx_rates)
    /\ fct_sales' = BagWhere(fct_sales, LAMBDA f :
                        \A x \in DOMAIN daily_fx_rates : x.date # f.date)
    /\ last' = Outcome("create_fct_sales_eur", NoExc, {})
    /\ UNCHANGED <<raw_retail_data, retail_columns, raw_fx_rates,
                   raw_uk_holidays, dim_calendar, dim_product, dim_customer,
                   daily_fx_rates, agg_country_day, pc, raised,
                   ieee_floating_point_ops>>

create_fct_sales_eur ==
    /\ pc = "idle"
    /\ IF {"fct_sales", "daily_fx_rates"} \subseteq catalog
       THEN /\ catalog' = catalog \cup {"fct_sales_eur"}
            /\ fct_sales_eur' = FctSalesEur(fct_sales, daily_fx_rates)
            /\ IF ComparisonHoldsNone(fct_sales_eur')
               THEN \* the f"{sales_eur:,.2f}" of the log raises on None (no row, or
                    \* no converted amount to add)
                    last' = Outcome("create_fct_sales_eur", "TypeError", {})
               ELSE \E null \in SampleHoldsNull(fct_sales_eur') :
                       last' =
                         IF null
                         THEN \* the f"{price_eur:.2f}" of the sample raises on None
                              Outcome("create_fct_sales_eur", "TypeError", {})
                         ELSE LET conversion_errors ==
                                      CountWhere(fct_sales_eur', ConversionError)
                              IN  Outcome("create_fct_sales_eur", NoExc,
                                          IF conversion_errors > 0
                                          THEN {ConversionWarning(conversion_errors)}
                                          ELSE {})
       ELSE /\ catalog' = catalog \ {"fct_sales_eur"}
            /\ fct_sales_eur' = EmptyBag
            /\ last' = Outcome("create_fct_sales_eur", "CatalogException", {})
    /\ UNCHANGED <<raw_retail_data, retail_columns, raw_fx_rates,
                   raw_uk_holidays, dim_calendar, dim_product, dim_customer,
                   fct_sales, daily_fx_rates, agg_country_day, pc, raised,
                   ieee_floating_point_ops>>

-----------------------------------------------------------------------------
(* create_agg_country_day *)

\* invoice_no LIKE 'C%': an invoice number is the sequence of its characters
LikeC(invoice_no) == invoice_no # <<>> /\ invoice_no[1] = "C"

RECURSIVE SetProduct(_)
SetProduct(S) ==
    IF S = {} THEN 1
    ELSE LET x == CHOOSE y \in S : TRUE IN x * SetProduct(S \ {x})

\* SUM of the DOUBLEs val[t] (NULL or <<number>>), each taken mult[t] times, over
\* t in T.  The NULLs are skipped and the sum of no value is NULL; a NaN, or inf
\* together with -inf, gives NaN; inf or -inf alone gives itself; fractions add up
FracSum(val, mult, T) ==
    LET values == {t \in T : val[t] # NULL}
        numbers == {t \in values : val[t][1].den > 0}
        den == SetProduct({val[t][1].den : t \in numbers})
    IN  IF values = {} THEN NULL
        ELSE IF \/ \E t \in values : val[t][1] = NotANumber
                \/ /\ \E t \in values : val[t][1] = PlusInfinity
                   /\ \E t \in values : val[t][1] = MinusInfinity
        THEN V(NotANumber)
        ELSE IF \E t \in values : val[t][1] = PlusInfinity THEN V(PlusInfinity)
        ELSE IF \E t \in values : val[t][1] = MinusInfinity THEN V(MinusInfinity)
        ELSE V(Frac(SetSum([t \in numbers |->
                              mult[t] * val[t][1].num * (den \div val[t][1].den)],
                           numbers), den))

\* the join on the invoice number alone
EurMatchesInvoiceOnly(f, eur) == {fe \in DOMAIN eur : f.invoice_no = fe.invoice_no}

\* fct_sales f INNER JOIN fct_sales_eur fe ON invoice_no, stock_code, date, customer_id
EurMatches(f, eur) ==
    {fe \in DOMAIN eur :
        /\ f.invoice_no = fe.invoice_no
        /\ f.stock_code = fe.stock_code
        /\ f.date = fe.date
        /\ f.customer_id = fe.customer_id}

\* the rows of FROM fct_sales f JOIN fct_sales_eur fe JOIN dim_customer cu JOIN
\* dim_calendar c, without their multiplicities
AggJoined(fct, eur, cust, cal) ==
    UNION {{<<f, fe, cu, c>> :
                fe \in EurMatches(f, eur),
                cu \in {x \in cust : x.customer_id = f.customer_id},
                c \in {x \in cal : x.date = f.date}} : f \in DOMAIN fct}

\* the GROUP BY key of a joined row
AggKey(j) ==
    [date |-> j[1].date,
     country |-> j[3].country,
     is_weekend |-> j[4].is_weekend,
     is_uk_holiday |-> j[4].is_uk_holiday,
     iso_week |-> j[4].iso_week,
     iso_year |-> j[4].iso_year,
     month |-> j[4].month,
     year |-> j[4].year]

\* COUNT(DISTINCT f.invoice_no), without the CASE that leaves cancellations out
OrdersCountsCancellations(G) == Cardinality({j[1].invoice_no : j \in G})

\* COUNT(DISTINCT CASE WHEN f.invoice_no NOT LIKE 'C%' THEN f.invoice_no ELSE NULL END)
Orders(G) == Cardinality({j[1].invoice_no : j \in {x \in G : ~LikeC(x[1].invoice_no)}})

\* a row whose items is SUM(f.qty), the quantity, in place of COUNT(*)
AggRowItemsAreQuantities(k, G, fct, eur) ==
    LET mult == [j \in G |-> fct[j[1]] * eur[j[2]]]
    IN  [date |-> k.date,
         country |-> k.country,
         orders |-> Orders(G),
         items |-> SetSum([j \in G |-> mult[j] * j[1].qty], G),
         net_qty |-> SetSum([j \in G |-> mult[j] * j[1].qty], G),
         net_revenue_gbp |-> SetSum([j \in G |-> mult[j] * j[1].gross_amount_gbp], G),
         net_revenue_eur |-> FracSum([j \in G |-> j[2].gross_amount_eur], mult, G),
         is_weekend |-> k.is_weekend,
         is_uk_holiday |-> k.is_uk_holiday,
         iso_week |-> k.iso_week,
         iso_year |-> k.iso_year,
         month |-> k.month,
         year |-> k.year]

\* one row of agg_country_day: the aggregates over the joined rows G of key k
AggRow(k, G, fct, eur) ==
    LET mult == [j \in G |-> fct[j[1]] * eur[j[2]]]
    IN  [date |-> k.date,
         country |-> k.country,
         orders |-> Orders(G),
         items |-> SetSum(mult, G),
         net_qty |-> SetSum([j \in G |-> mult[j] * j[1].qty], G),
         net_revenue_gbp |-> SetSum([j \in G |-> mult[j] * j[1].gross_amount_gbp], G),
         net_revenue_eur |-> FracSum([j \in G |-> j[2].gross_amount_eur], mult, G),
         is_weekend |-> k.is_weekend,
         is_uk_holiday |-> k.is_uk_holiday,
         iso_week |-> k.iso_week,
         iso_year |-> k.iso_year,
         month |-> k.month,
         year |-> k.year]

\* CREATE TABLE agg_country_day AS SELECT ... GROUP BY ...
AggCountryDay(fct, eur, cust, cal) ==
    LET joined == AggJoined(fct, eur, cust, cal)
    IN  {AggRow(k, {j \in joined : AggKey(j) = k}, fct, eur) :
            k \in {AggKey(j) : j \in joined}}

\* the reference rate 0.8654 of the cross-currency check, times 10^4
ReferenceRate == 8654

\* SUM(f.gross_amount_gbp) over the joined rows G adds doubles, in an order the
\* query does not fix.  The additions are free of rounding in every order when the
\* amounts other than 0 are one product qty * unit_price_gbp and its negation,
\* each taken at most twice: every partial sum is then 0, the product or twice
\* the product
SumsWithoutRounding(G, mult) ==
    LET terms == {j \in G : j[1].gross_amount_gbp # 0}
    IN  /\ Cardinality({<<Abs(j[1].qty), Abs(j[1].unit_price_gbp)>> : j \in terms}) <= 1
        /\ SetSum(mult, {j \in terms : j[1].gross_amount_gbp > 0}) <= 2
        /\ SetSum(mult, {j \in terms : j[1].gross_amount_gbp < 0}) <= 2

\* the rows of agg_country_day whose net_revenue_gbp is 0 in pence while the
\* double the table stores may be a residue of the additions, of either sign
AggResidues(fct, eur, cust, cal) ==
    LET joined == AggJoined(fct, eur, cust, cal)
        Group(k) == {j \in joined : AggKey(j) = k}
    IN  {a \in {AggRow(k, Group(k), fct, eur) :
                   k \in {x \in {AggKey(j) : j \in joined} :
                            ~SumsWithoutRounding(Group(x),
                                 [j \in Group(x) |-> fct[j[1]] * eur[j[2]]])}} :
            a.net_revenue_gbp = 0}

\* the values ABS(net_revenue_eur * 0.8654 - net_revenue_gbp)
\* / NULLIF(net_revenue_gbp, 0) > 0.1 can take on the row a, computed in doubles:
\* - net_revenue_eur NULL: NULL, the row is not counted;
\* - net_revenue_gbp 0 and stored as 0: NULL, the row is not counted;
\* - net_revenue_gbp 0 in pence and stored as a residue: NULLIF lets it through,
\*   and the ratio is over 0.1 or not with the size and sign of the residue;
\* - net_revenue_eur NaN: the ratio is NaN, which DuckDB orders above every
\*   number, and the row is counted;
\* - net_revenue_eur inf or -inf: the ratio is inf with the sign of
\*   net_revenue_gbp, and the row is counted when that is positive;
\* - net_revenue_gbp negative: the ratio is not positive, the row is not counted;
\* - the ratio exactly 0.1: the rounding of the product and of the quotient
\*   decides; any other ratio is compared as it stands
RevenueMismatch(a, residue) ==
    IF a.net_revenue_eur = NULL THEN {FALSE}
    ELSE LET n == a.net_revenue_eur[1].num
             d == a.net_revenue_eur[1].den
             gbp == a.net_revenue_gbp
             diff == Abs(n * ReferenceRate - gbp * d * 10000)
         IN  IF gbp = 0 THEN (IF residue THEN BOOLEAN ELSE {FALSE})
             ELSE IF d = 0 THEN {n = 0 \/ gbp > 0}
             ELSE IF gbp < 0 THEN {FALSE}
             ELSE IF diff = gbp * d * 1000 THEN BOOLEAN
             ELSE {diff > gbp * d * 1000}

\* the lists validation_checks can leave, kept where violations > 0: residues are
\* the rows of agg whose net_revenue_gbp may be stored as a residue
QualityIssues(agg, residues) ==
    LET sure == {a \in agg : RevenueMismatch(a, a \in residues) = {TRUE}}
        open == {a \in agg : RevenueMismatch(a, a \in residues) = BOOLEAN}
        Counts(n) ==
            {<<"Negative orders", Cardinality({a \in agg : a.orders < 0})>>,
             <<"Negative items", Cardinality({a \in agg : a.items < 0})>>,
             <<"Revenue mismatch", n>>}
    IN  {{w \in Counts(n) : w[2] > 0} :
            n \in Cardinality(sure)..(Cardinality(sure) + Cardinality(open))}

\* top_countries holds a country whose total_revenue_eur is None: GROUP BY
\* country ORDER BY total_revenue_gbp DESC LIMIT 5
TopCountriesHoldNone(agg) ==
    LET countries == {a.country : a \in agg}
        total_gbp == [c \in countries |->
                        SetSum([a \in agg |-> a.net_revenue_gbp],
                               {a \in agg : a.country = c})]
    IN  LimitFiveHolds(countries, [c \in countries |-> 1],
                       [c \in countries |->
                           Cardinality({x \in countries : total_gbp[x] > total_gbp[c]})],
                       {c \in countries :
                           \A a \in agg : a.country = c => a.net_revenue_eur = NULL})

\* sample_data holds a row whose net_revenue_eur is None: ORDER BY
\* net_revenue_gbp DESC LIMIT 5
SampleHoldsNone(agg) ==
    LimitFiveHolds(agg, [a \in agg |-> 1],
                   [a \in agg |->
                       Cardinality({x \in agg : x.net_revenue_gbp > a.net_revenue_gbp})],
                   {a \in agg : a.net_revenue_eur = NULL})

\* whether a f"{...:,.2f}" of the log is given None, as the set of the answers:
\* total_net_eur (the SUM of no value), a total_revenue_eur of top_countries or a
\* net_revenue_eur of sample_data
LogHoldsNone(agg) ==
    {total \/ country \/ row :
        total \in {\A a \in agg : a.net_revenue_eur = NULL},
        country \in TopCountriesHoldNone(agg),
        row \in SampleHoldsNone(agg)}

create_agg_country_day ==
    /\ pc = "idle"
    /\ IF {"fct_sales", "fct_sales_eur", "dim_customer", "dim_calendar"} \subseteq catalog
       THEN /\ catalog' = catalog \cup {"agg_country_day"}
            /\ agg_country_day' =
                 AggCountryDay(fct_sales, fct_sales_eur, dim_customer, dim_calendar)
            /\ IF agg_country_day' = {}
               THEN \* SUM over no rows is None: the f"{total_orders:,}" of the log raises
                    last' = Outcome("create_agg_country_day", "TypeError", {})
               ELSE \E none \in LogHoldsNone(agg_country_day') :
                       IF none
                       THEN last' = Outcome("create_agg_country_day", "TypeError", {})
                       ELSE \E issues \in
                               QualityIssues(agg_country_day',
                                             AggResidues(fct_sales, fct_sales_eur,
                                                         dim_customer, dim_calendar)) :
                               last' = Outcome("create_agg_country_day", NoExc, issues)
       ELSE /\ catalog' = catalog \ {"agg_country_day"}
            /\ agg_country_day' = {}
            /\ last' = Outcome("create_agg_country_day", "CatalogException", {})
    /\ UNCHANGED <<raw_retail_data, retail_columns, raw_fx_rates,
                   raw_uk_holidays, dim_calendar, dim_product, dim_customer,
                   fct_sales, daily_fx_rates, fct_sales_eur, pc, raised,
                   ieee_floating_point_ops>>

-----------------------------------------------------------------------------
(* Staging contents the model draws from *)

RECURSIVE BagsUpTo(_, _)
\* the bags of at most n rows of S
BagsUpTo(S, n) ==
    IF n = 0 THEN {EmptyBag}
    ELSE LET smaller == BagsUpTo(S, n - 1)
         IN  smaller \cup {b (+) One(r) : b \in smaller, r \in S}

\* invoice "536365" and its cancellation "C536365"
Invoice == <<"5", "3", "6", "3", "6", "5">>

Cancellation == <<"C">> \o Invoice

\* the line item of the scenarios: invoice 536365 of 2010-12-01, 6 x A1 at 2.55
BaseRow ==
    [invoice_no |-> Invoice,
     stock_code |-> "A1",
     description |-> "LANTERN",
     qty |-> V(6),
     invoice_ts |-> V(Timestamp(2010, 12, 1, 8, 26)),
     unit_price_gbp |-> V(255),
     customer_id |-> V(17850),
     country |-> "United Kingdom"]

\* the base row and rows that differ from it in one or two respects
RetailRows ==
    {BaseRow,
     [BaseRow EXCEPT !.invoice_no = Cancellation, !.qty = V(-6)],
     [BaseRow EXCEPT !.stock_code = "nan"],
     [BaseRow EXCEPT !.description = "HEART"],
     [BaseRow EXCEPT !.invoice_ts = V(Timestamp(2010, 12, 6, 9, 0))],
     [BaseRow EXCEPT !.unit_price_gbp = NULL],
     [BaseRow EXCEPT !.customer_id = NULL],
     [BaseRow EXCEPT !.customer_id = NULL, !.invoice_ts = NULL],
     [BaseRow EXCEPT !.country = "France"],
     [BaseRow EXCEPT !.stock_code = "B2", !.customer_id = V(12583),
                     !.country = "France"]}

RetailTables == BagsUpTo(RetailRows, MaxRows)

FxRow(d, rate) == [date |-> d, gbp_per_eur |-> rate]

\* FX staging of the warehouse build: one observation, or two observations of one
\* date with different rates
FxTablesSmall ==
    {One(FxRow(Date(2010, 12, 1), V(85))),
     One(FxRow(Date(2010, 12, 1), V(85))) (+) One(FxRow(Date(2010, 12, 1), V(90)))}

\* the bank holidays around the staged transactions
HolidayTables == {{Date(2010, 12, 27), Date(2010, 12, 28), Date(2011, 1, 3)}}

-----------------------------------------------------------------------------
(* The warehouse build: the builders called in any order over a staged snapshot *)

NoCall == Outcome("none", NoExc, {})

Init ==
    /\ catalog = StagingTables
    /\ raw_retail_data \in RetailTables
    /\ retail_columns \in (IF raw_retail_data = EmptyBag THEN BOOLEAN ELSE {TRUE})
    /\ raw_fx_rates \in FxTablesSmall
    /\ ieee_floating_point_ops \in DivisionSettings(raw_fx_rates)
    /\ raw_uk_holidays \in HolidayTables
    /\ dim_calendar = {}
    /\ dim_product = {}
    /\ dim_customer = {}
    /\ fct_sales = EmptyBag
    /\ daily_fx_rates = EmptyBag
    /\ fct_sales_eur = EmptyBag
    /\ agg_country_day = {}
    /\ last = NoCall
    /\ pc = "idle"
    /\ raised = NoExc

Next ==
    \/ create_dim_calendar
    \/ create_dim_product
    \/ create_dim_customer
    \/ create_fct_sales
    \/ create_daily_fx_rates
    \/ create_fct_sales_eur
    \/ create_agg_country_day

Spec == Init /\ [][Next]_vars

\* the contents of every table, by name
Contents ==
    [raw_retail_data |-> raw_retail_data,
     raw_fx_rates |-> raw_fx_rates,
     raw_uk_holidays |-> raw_uk_holidays,
     dim_calendar |-> dim_calendar,
     dim_product |-> dim_product,
     dim_customer |-> dim_customer,
     fct_sales |-> fct_sales,
     daily_fx_rates |-> daily_fx_rates,
     fct_sales_eur |-> fct_sales_eur,
     agg_country_day |-> agg_country_day]

\* C2: right after create_agg_country_day, the sum of net_revenue_gbp over
\* agg_country_day equals the sum of gross_amount_gbp over fct_sales
C2_AggregateSumEqualsFactSum ==
    (last.op = "create_agg_country_day" /\ "agg_country_day" \in catalog) =>
        SetSum([a \in agg_country_day |-> a.net_revenue_gbp], agg_country_day)
            = BagSum(fct_sales, LAMBDA f : f.gross_amount_gbp)

\* every group of staged rows has one most frequent description or country, and the
\* observations of one date in raw_fx_rates all carry the same rate
NoTies ==
    /\ \A r \in DOMAIN raw_retail_data :
          /\ Cardinality(Mode(BagWhere(raw_retail_data,
                                       LAMBDA x : x.stock_code = r.stock_code),
                              LAMBDA x : x.description)) = 1
          /\ Cardinality(Mode(BagWhere(raw_retail_data,
                                       LAMBDA x : CustomerKey(x) = CustomerKey(r)),
                              LAMBDA x : x.country)) = 1
    /\ \A x, y \in DOMAIN raw_fx_rates : x.date = y.date => x = y

\* C8 as claimed: over unchanged staging tables, a builder that runs when its
\* relation already exists leaves it with the contents it had, whatever the staging
\* tables hold
C8_RebuildIsIdentical ==
    [][\A t \in OutputRelations :
          (t \in catalog /\ t \in catalog') => Contents'[t] = Contents[t]]_vars

\* C8 amended: the rebuilt relation has the contents it had when no group of staged
\* rows has tied most frequent values and no date has two different FX rates;
\* dim_calendar and fct_sales are rebuilt identically in every case
C8_RebuildIsIdenticalWithoutTies ==
    [][\A t \in OutputRelations :
          (/\ t \in catalog
           /\ t \in catalog'
           /\ (NoTies \/ t \in {"dim_calendar", "fct_sales"}))
             => Contents'[t] = Contents[t]]_vars

\* C8 witness: dim_product was built again after all seven relations existed
\* (agg_country_day can only be built once dim_product's successors exist), over
\* staging without ties
C8_Witness ==
    /\ OutputRelations \subseteq catalog
    /\ last.op = "create_dim_product"
    /\ NoTies
    /\ BagCardinality(raw_retail_data) = MaxRows
    /\ agg_country_day # {}

\* the builder that writes each output relation
Writer ==
    [dim_calendar |-> "create_dim_calendar",
     dim_product |-> "create_dim_product",
     dim_customer |-> "create_dim_customer",
     fct_sales |-> "create_fct_sales",
     daily_fx_rates |-> "create_daily_fx_rates",
     fct_sales_eur |-> "create_fct_sales_eur",
     agg_country_day |-> "create_agg_country_day"]

\* C9: a step that creates, drops or changes an output relation is a step of that
\* relation's one builder, and no builder step changes a staging table
C9_SingleWriter ==
    [][/\ \A t \in OutputRelations :
             ((t \in catalog) # (t \in catalog') \/ Contents'[t] # Contents[t])
                => last'.op = Writer[t]
       /\ \A t \in StagingTables :
             (t \in catalog) = (t \in catalog') /\ Contents'[t] = Contents[t]]_vars

\* C9 witness: create_fct_sales_eur has written its relation while the relations it
\* reads and the ones built from it exist
C9_Witness ==
    /\ OutputRelations \subseteq catalog
    /\ last.op = "create_fct_sales_eur"
    /\ fct_sales_eur # EmptyBag

\* the fct_sales rows a staged row with no customer_id must show up as
UnknownCustomerFacts(r) ==
    CountWhere(fct_sales, LAMBDA f :
        /\ f.customer_id = UNKNOWN_CUSTOMER
        /\ f.invoice_no = r.invoice_no
        /\ f.stock_code = r.stock_code)

\* dim_customer, once built, holds (-1, 'UNKNOWN') when a staged row has no customer
UnknownCustomerInDimension ==
    ("dim_customer" \in catalog /\ \E r \in DOMAIN raw_retail_data : r.customer_id = NULL)
        => [customer_id |-> UNKNOWN_CUSTOMER, country |-> "UNKNOWN"] \in dim_customer

\* C10 as claimed: a staged row with no customer_id is (-1, 'UNKNOWN') in
\* dim_customer and, when its stock code, quantity and unit price are valid, is in
\* fct_sales with customer_id = -1
C10_UnknownCustomerKept ==
    /\ UnknownCustomerInDimension
    /\ (last.op = "create_fct_sales" /\ "fct_sales" \in catalog) =>
          \A r \in DOMAIN raw_retail_data :
             (r.customer_id = NULL /\ FactEligible(r)) => UnknownCustomerFacts(r) > 0

\* C10 amended: ... when its stock code, quantity, unit price and invoice timestamp
\* are valid, is in fct_sales with customer_id = -1 (as many rows as were staged)
C10_UnknownCustomerKeptIfDated ==
    /\ UnknownCustomerInDimension
    /\ (last.op = "create_fct_sales" /\ "fct_sales" \in catalog) =>
          \A r \in DOMAIN raw_retail_data :
             (r.customer_id = NULL /\ FactEligible(r) /\ r.invoice_ts # NULL)
                => UnknownCustomerFacts(r) >=
                      CountWhere(raw_retail_data, LAMBDA x :
                          /\ x.customer_id = NULL /\ FactEligible(x)
                          /\ x.invoice_ts # NULL
                          /\ x.invoice_no = r.invoice_no
                          /\ x.stock_code = r.stock_code)

\* C10 witness: fct_sales was built from staging that holds a fact-eligible, dated
\* row with no customer_id beside a row of a known customer
C10_Witness ==
    /\ last.op = "create_fct_sales"
    /\ \E f \in DOMAIN fct_sales : f.customer_id = UNKNOWN_CUSTOMER
    /\ \E f \in DOMAIN fct_sales : f.customer_id # UNKNOWN_CUSTOMER
    /\ \E cu \in dim_customer : cu.customer_id = UNKNOWN_CUSTOMER /\ cu.country = "UNKNOWN"

\* the fct_sales rows behind the agg_country_day row a: those of its date whose
\* customer has its country in dim_customer
FactsOf(a) ==
    BagWhere(fct_sales, LAMBDA f :
        /\ f.date = a.date
        /\ \E cu \in dim_customer : cu.customer_id = f.customer_id /\ cu.country = a.country)

\* C11: right after create_agg_country_day, orders of every row is the number of
\* distinct invoice numbers not starting with 'C' among the fct_sales rows of its
\* date and country
C11_OrdersExcludeCancellations ==
    (last.op = "create_agg_country_day" /\ "agg_country_day" \in catalog) =>
        \A a \in agg_country_day :
           a.orders = Cardinality({f.invoice_no : f \in {x \in DOMAIN FactsOf(a) :
                                                            ~LikeC(x.invoice_no)}})

\* C11 witness: a country-day built from an invoice and its cancellation counts one
\* order, and its quantities cancel out
C11_Witness ==
    /\ last.op = "create_agg_country_day"
    /\ \E a \in agg_country_day :
          /\ a.orders = 1
          /\ a.net_qty = 0
          /\ \E f \in DOMAIN FactsOf(a) : LikeC(f.invoice_no)

\* C12: right after create_agg_country_day, items of every row is the number of
\* fct_sales rows of its date and country (repeated line items counted as often as
\* fct_sales holds them) and net_qty is the signed sum of their quantities
C12_ItemsAndNetQtyOfFacts ==
    (last.op = "create_agg_country_day" /\ "agg_country_day" \in catalog) =>
        \A a \in agg_country_day :
           /\ a.items = BagCardinality(FactsOf(a))
           /\ a.net_qty = BagSum(FactsOf(a), LAMBDA f : f.qty)

\* the staged row r has a timestamp, a stock code that is not empty or 'nan' (a
\* staged stock code is a string, never NULL), a unit price and a quantity
Kept(r) ==
    /\ r.invoice_ts # NULL
    /\ r.stock_code \notin {"", "nan"}
    /\ r.unit_price_gbp # NULL
    /\ r.qty # NULL

\* the fct_sales row f is the row of the staged row r
Represents(f, r) ==
    /\ f.invoice_no = r.invoice_no
    /\ f.stock_code = r.stock_code
    /\ f.customer_id = COALESCE(r.customer_id, UNKNOWN_CUSTOMER)
    /\ V(f.date) = DATE(r.invoice_ts)
    /\ V(f.qty) = r.qty
    /\ V(f.unit_price_gbp) = r.unit_price_gbp

\* C18: right after create_fct_sales (dimensions built from the same staging),
\* fct_sales holds one row for each staged row with a timestamp, a valid stock
\* code, a unit price and a quantity, of either sign, and no other row; each
\* row's gross_amount_gbp is qty * unit_price_gbp
C18_OneFactPerEligibleRow ==
    (last.op = "create_fct_sales" /\ "fct_sales" \in catalog) =>
        /\ BagCardinality(fct_sales) = CountWhere(raw_retail_data, Kept)
        /\ \A r \in DOMAIN raw_retail_data :
              Kept(r) => \E f \in DOMAIN fct_sales : Represents(f, r)
        /\ \A f \in DOMAIN fct_sales :
              /\ CopiesIn(f, fct_sales) =
                    CountWhere(raw_retail_data, LAMBDA r : Kept(r) /\ Represents(f, r))
              /\ f.gross_amount_gbp = f.qty * f.unit_price_gbp

\* C18 witness: a fact table that holds a cancellation (negative quantity and
\* amount) while a staged row without unit price was left out
C18_Witness ==
    /\ last.op = "create_fct_sales"
    /\ \E f \in DOMAIN fct_sales : f.qty < 0 /\ f.gross_amount_gbp < 0
    /\ \E r \in DOMAIN raw_retail_data : r.invoice_ts # NULL /\ r.unit_price_gbp = NULL

\* the transaction dates of the staged rows of stock code c
DatesOfCode(c) ==
    {DATE(r.invoice_ts)[1] :
        r \in {x \in DOMAIN raw_retail_data : x.stock_code = c /\ x.invoice_ts # NULL}}

\* dim_product has exactly one row for every staged stock code other than '' and
\* 'nan' (a staged stock code is a string, never NULL) and no other row
OneRowPerStockCode ==
    /\ {p.stock_code : p \in dim_product}
          = {r.stock_code : r \in DOMAIN raw_retail_data} \ {"", "nan"}
    /\ \A p, q \in dim_product : p.stock_code = q.stock_code => p = q

\* C21 as stated: right after create_dim_product, one row per valid stock code, with
\* first_seen and last_seen the earliest and latest transaction date of the code and
\* first_seen <= last_seen
C21_ProductSeenRange ==
    (last.op = "create_dim_product" /\ "dim_product" \in catalog) =>
        /\ OneRowPerStockCode
        /\ \A p \in dim_product :
              /\ p.first_seen # NULL
              /\ p.last_seen # NULL
              /\ p.first_seen[1] = Min(DatesOfCode(p.stock_code))
              /\ p.last_seen[1] = Max(DatesOfCode(p.stock_code))
              /\ p.first_seen[1] <= p.last_seen[1]

\* C21: right after create_dim_product, one row per valid stock code; when a row of
\* the code has a timestamp, first_seen and last_seen are the earliest and latest
\* transaction date of the code and first_seen <= last_seen; when none has, both
\* are NULL
C21_ProductSeenRangeIfDated ==
    (last.op = "create_dim_product" /\ "dim_product" \in catalog) =>
        /\ OneRowPerStockCode
        /\ \A p \in dim_product :
              IF DatesOfCode(p.stock_code) = {}
              THEN p.first_seen = NULL /\ p.last_seen = NULL
              ELSE /\ p.first_seen = V(Min(DatesOfCode(p.stock_code)))
                   /\ p.last_seen = V(Max(DatesOfCode(p.stock_code)))
                   /\ p.first_seen[1] <= p.last_seen[1]

\* C21 witness: a product seen from 2010-12-01 to 2010-12-06
C21_Witness ==
    /\ last.op = "create_dim_product"
    /\ \E p \in dim_product :
          /\ p.first_seen = V(Date(2010, 12, 1))
          /\ p.last_seen = V(Date(2010, 12, 6))

\* C22: right after create_dim_customer, the table has exactly one row for every
\* distinct staged customer_id, NULL counting as -1, and no other row, and the row
\* of -1 has country 'UNKNOWN'
C22_OneRowPerCustomer ==
    (last.op = "create_dim_customer" /\ "dim_customer" \in catalog) =>
        /\ {cu.customer_id : cu \in dim_customer}
              = {IF r.customer_id = NULL THEN -1 ELSE r.customer_id[1] :
                    r \in DOMAIN raw_retail_data}
        /\ \A cu, cv \in dim_customer : cu.customer_id = cv.customer_id => cu = cv
        /\ \A cu \in dim_customer : cu.customer_id = -1 => cu.country = "UNKNOWN"

\* C22 witness: the row (-1, 'UNKNOWN') beside the row of a known customer, the
\* staged rows without customer_id carrying the country 'United Kingdom'
C22_Witness ==
    /\ last.op = "create_dim_customer"
    /\ [customer_id |-> -1, country |-> "UNKNOWN"] \in dim_customer
    /\ \E cu \in dim_customer : cu.customer_id # -1
    /\ \E r \in DOMAIN raw_retail_data :
          r.customer_id = NULL /\ r.country = "United Kingdom"

\* C27: every row of agg_country_day has orders >= 0, items >= 1 and
\* orders <= items, and a create_agg_country_day that ran to its end has reported
\* neither 'Negative orders' nor 'Negative items'
C27_CountsAreSane ==
    /\ "agg_country_day" \in catalog =>
          \A a \in agg_country_day : a.orders >= 0 /\ a.items >= 1 /\ a.orders <= a.items
    /\ last.op = "create_agg_country_day" =>
          \A w \in last.warnings : w[1] \notin {"Negative orders", "Negative items"}

\* C27 witness: a country-day made of cancellations only: no order, at least one
\* item, a negative quantity
C27_Witness ==
    /\ last.op = "create_agg_country_day"
    /\ last.exc = NoExc
    /\ \E a \in agg_country_day : a.orders = 0 /\ a.items >= 1 /\ a.net_qty < 0

-----------------------------------------------------------------------------
(* The product and customer dimensions over groups of up to three rows *)

\* line items of one product with the description 'LANTERN', 'HEART' or none (staged
\* as 'nan'), sold in two countries to a known customer or to none
DimRows ==
    {[BaseRow EXCEPT !.description = d, !.country = c, !.customer_id = id] :
        d \in {"LANTERN", "HEART", "nan"},
        c \in {"United Kingdom", "France"},
        id \in {V(17850), NULL}}

InitDims ==
    /\ retail_columns = TRUE
    /\ catalog = StagingTables
    /\ raw_retail_data \in BagsUpTo(DimRows, MaxDimRows)
    /\ raw_fx_rates = EmptyBag
    /\ ieee_floating_point_ops \in DivisionSettings(raw_fx_rates)
    /\ raw_uk_holidays = {}
    /\ dim_calendar = {}
    /\ dim_product = {}
    /\ dim_customer = {}
    /\ fct_sales = EmptyBag
    /\ daily_fx_rates = EmptyBag
    /\ fct_sales_eur = EmptyBag
    /\ agg_country_day = {}
    /\ last = NoCall
    /\ pc = "idle"
    /\ raised = NoExc

NextDims ==
    \/ create_dim_product
    \/ create_dim_customer

SpecDims == InitDims /\ [][NextDims]_vars

\* the number of staged rows of stock code c with description d
DescriptionCount(c, d) ==
    CountWhere(raw_retail_data, LAMBDA r : r.stock_code = c /\ r.description = d)

\* the number of staged rows of the known customer id with country c
CountryCount(id, c) ==
    CountWhere(raw_retail_data, LAMBDA r : r.customer_id = V(id) /\ r.country = c)

\* C23: the description of every dim_product row occurs among the staged rows of
\* its stock code, and no other description occurs more often among them; the
\* country of every dim_customer row of a known customer occurs among the staged
\* rows of that customer, and no other country occurs more often among them
C23_MostFrequentValue ==
    /\ "dim_product" \in catalog =>
          \A p \in dim_product :
             /\ DescriptionCount(p.stock_code, p.description) > 0
             /\ \A r \in DOMAIN raw_retail_data :
                   DescriptionCount(p.stock_code, r.description)
                      <= DescriptionCount(p.stock_code, p.description)
    /\ "dim_customer" \in catalog =>
          \A cu \in dim_customer :
             cu.customer_id # UNKNOWN_CUSTOMER =>
                /\ CountryCount(cu.customer_id, cu.country) > 0
                /\ \A r \in DOMAIN raw_retail_data :
                      CountryCount(cu.customer_id, r.country)
                         <= CountryCount(cu.customer_id, cu.country)

\* C23 witness: 'HEART' chosen for a product described twice as 'HEART' and once as
\* 'LANTERN', 'France' chosen for a customer seen twice in France and once in the
\* United Kingdom
C23_Witness ==
    /\ {"dim_product", "dim_customer"} \subseteq catalog
    /\ \E p \in dim_product :
          /\ p.description = "HEART"
          /\ DescriptionCount(p.stock_code, "HEART") = 2
          /\ DescriptionCount(p.stock_code, "LANTERN") = 1
    /\ \E cu \in dim_customer :
          /\ cu.country = "France"
          /\ CountryCount(cu.customer_id, "France") = 2
          /\ CountryCount(cu.customer_id, "United Kingdom") = 1

-----------------------------------------------------------------------------
(* The calendar builder over staging of several date ranges *)

\* line items dated at month ends, across the turn of the year, in a leap February,
\* one without a timestamp, and two rows that the fact filters reject (stock code
\* 'nan', no unit price) dated before and after all the others
CalendarSpanRows ==
    {[BaseRow EXCEPT !.invoice_ts = ts] :
        ts \in {V(Timestamp(2010, 11, 30, 23, 59)),
                V(Timestamp(2010, 12, 1, 8, 26)),
                V(Timestamp(2010, 12, 31, 0, 0)),
                V(Timestamp(2011, 1, 4, 10, 30)),
                V(Timestamp(2011, 2, 28, 12, 0)),
                V(Timestamp(2012, 2, 10, 12, 0)),
                NULL}}
    \cup {[BaseRow EXCEPT !.stock_code = "nan",
                          !.invoice_ts = V(Timestamp(2010, 10, 15, 9, 0))],
          [BaseRow EXCEPT !.unit_price_gbp = NULL,
                          !.invoice_ts = V(Timestamp(2012, 3, 5, 9, 0))]}

CalendarHolidayTables ==
    {{},
     {Date(2010, 12, 27), Date(2010, 12, 28), Date(2011, 1, 3)},
     {Date(2010, 1, 1), Date(2011, 1, 1), Date(2012, 12, 25)}}

InitCal ==
    /\ retail_columns = TRUE
    /\ raw_retail_data \in BagsUpTo(CalendarSpanRows, MaxRows)
    /\ raw_fx_rates = EmptyBag
    /\ ieee_floating_point_ops \in DivisionSettings(raw_fx_rates)
    /\ raw_uk_holidays \in CalendarHolidayTables
    /\ \E stale \in BOOLEAN, holidays \in BOOLEAN :
          /\ catalog = {"raw_retail_data", "raw_fx_rates"}
                          \cup (IF holidays THEN {"raw_uk_holidays"} ELSE {})
                          \cup (IF stale THEN {"dim_calendar"} ELSE {})
          /\ dim_calendar = IF stale THEN CalendarUnflagged(One(BaseRow)) ELSE {}
    /\ dim_product = {}
    /\ dim_customer = {}
    /\ fct_sales = EmptyBag
    /\ daily_fx_rates = EmptyBag
    /\ fct_sales_eur = EmptyBag
    /\ agg_country_day = {}
    /\ last = NoCall
    /\ pc = "idle"
    /\ raised = NoExc

NextCal == create_dim_calendar

SpecCal == InitCal /\ [][NextCal]_vars

\* C3: after create_dim_calendar, dim_calendar holds exactly one row for every day
\* from its minimum to its maximum date, so no two consecutive dates are more than
\* one day apart, and the gap warning is not emitted
C3_CalendarHasNoGaps ==
    (last.op = "create_dim_calendar" /\ "dim_calendar" \in catalog) =>
        LET dates == {c.date : c \in dim_calendar}
        IN  /\ dates # {}
            /\ \A d \in Min(dates)..Max(dates) :
                  Cardinality({c \in dim_calendar : c.date = d}) = 1
            /\ \A w \in last.warnings : w[1] # GapWarning(0)[1]

\* C3 witness: create_dim_calendar succeeded on staging whose dates lie in different
\* years, and flagged a holiday between them
C3_Witness ==
    /\ last.op = "create_dim_calendar"
    /\ last.exc = NoExc
    /\ \E c, e \in dim_calendar : c.year = 2010 /\ e.year = 2011 /\ e.is_uk_holiday
    /\ \E c \in dim_calendar : c.date = Date(2011, 2, 28)

\* dim_calendar runs from the first day of the month of the earliest date of ds to
\* the last day of the month of the latest one (31 December of the same year when
\* that month is December)
CalendarSpans(ds) ==
    LET lo == Min({c.date : c \in dim_calendar})
        hi == Max({c.date : c \in dim_calendar})
    IN  /\ lo = Date(YearOf(Min(ds)), MonthOf(Min(ds)), 1)
        /\ hi >= Max(ds)
        /\ YearOf(hi) = YearOf(Max(ds))
        /\ MonthOf(hi) = MonthOf(Max(ds))
        /\ MonthOf(hi + 1) # MonthOf(hi)
        /\ MonthOf(hi) = 12 => hi = Date(YearOf(Max(ds)), 12, 31)

\* the dates of the staged rows that pass the filters of the fact table
EligibleDates ==
    {DATE(r.invoice_ts)[1] :
        r \in {x \in DOMAIN raw_retail_data : x.invoice_ts # NULL /\ FactEligible(x)}}

\* the dates of all staged rows that have a timestamp
StagedDates ==
    {DATE(r.invoice_ts)[1] : r \in {x \in DOMAIN raw_retail_data : x.invoice_ts # NULL}}

\* C17 as stated: after create_dim_calendar, the calendar spans the months of the
\* earliest and the latest date of the fact-eligible staged rows
C17_CalendarSpansEligibleMonths ==
    (last.op = "create_dim_calendar" /\ last.exc = NoExc /\ EligibleDates # {}) =>
        CalendarSpans(EligibleDates)

\* C17: after create_dim_calendar, the calendar spans the months of the earliest and
\* the latest date of all staged rows that have a timestamp, fact-eligible or not
C17_CalendarSpansStagedMonths ==
    (last.op = "create_dim_calendar" /\ last.exc = NoExc) =>
        CalendarSpans(StagedDates)

\* C17 witness: a calendar from 2010-10-01, the month of a row with stock code
\* 'nan', to 2010-12-31, the December of the latest row
C17_Witness ==
    /\ last.op = "create_dim_calendar"
    /\ last.exc = NoExc
    /\ EligibleDates # {}
    /\ Min(StagedDates) < Min(EligibleDates)
    /\ Min({c.date : c \in dim_calendar}) = Date(2010, 10, 1)
    /\ Max({c.date : c \in dim_calendar}) = Date(2010, 12, 31)

\* the number of the month of day d, counted from January 2010
MonthIndex(d) == (YearOf(d) - 2010) * 12 + MonthOf(d)

\* C24: after create_dim_calendar, a date is flagged is_uk_holiday exactly when it is
\* in raw_uk_holidays and is_weekend exactly when it is a Saturday or a Sunday
\* (2010-01-02 was a Saturday), and every date lies in the months of the staged
\* transactions: a holiday outside them has no row
C24_HolidayAndWeekendFlags ==
    (last.op = "create_dim_calendar" /\ last.exc = NoExc) =>
        \A c \in dim_calendar :
           /\ c.is_uk_holiday <=> (c.date \in raw_uk_holidays)
           /\ c.is_weekend <=> ((c.date - Date(2010, 1, 2)) % 7 \in {0, 1})
           /\ MonthIndex(Min(StagedDates)) <= MonthIndex(c.date)
           /\ MonthIndex(c.date) <= MonthIndex(Max(StagedDates))

\* C24 witness: a calendar of December 2010 with Monday 2010-12-27 flagged as a
\* holiday and Sunday 2010-12-26 as a weekend day, while the holiday 2011-01-03 has
\* no row
C24_Witness ==
    /\ last.op = "create_dim_calendar"
    /\ last.exc = NoExc
    /\ Date(2011, 1, 3) \in raw_uk_holidays
    /\ \A c \in dim_calendar : c.date # Date(2011, 1, 3)
    /\ \E c \in dim_calendar :
          c.date = Date(2010, 12, 27) /\ c.is_uk_holiday /\ ~c.is_weekend
    /\ \E c \in dim_calendar :
          c.date = Date(2010, 12, 26) /\ c.is_weekend /\ ~c.is_uk_holiday

-----------------------------------------------------------------------------
(* The FX alignment over sales of several dates and FX staging of several shapes *)

\* the line item sold on 2010-12-01, 2010-12-03 and 2010-12-06, a line item sold to a
\* customer in France on 2010-12-03, and the cancellation of the line item on
\* 2010-12-03
FxSalesRows ==
    {[BaseRow EXCEPT !.invoice_ts = V(Timestamp(2010, 12, d, 8, 26))] : d \in {1, 3, 6}}
    \cup {[BaseRow EXCEPT !.invoice_no = Invoice, !.stock_code = "B2",
                          !.invoice_ts = V(Timestamp(2010, 12, 3, 8, 26)),
                          !.customer_id = V(12583), !.country = "France"],
          [BaseRow EXCEPT !.invoice_no = Cancellation, !.qty = V(-6),
                          !.invoice_ts = V(Timestamp(2010, 12, 3, 8, 26))]}

\* observations before and within the sales dates; OBS_VALUE="NaN" is staged as
\* NULL, and "0", "-0.85" and "inf" as the floats they are
FxObservations ==
    {FxRow(Date(2010, 11, 30), V(85)),
     FxRow(Date(2010, 12, 1), V(85)),
     FxRow(Date(2010, 12, 1), V(-85)),
     FxRow(Date(2010, 12, 2), V(90)),
     FxRow(Date(2010, 12, 2), NULL),
     FxRow(Date(2010, 12, 3), V(75)),
     FxRow(Date(2010, 12, 3), V(0)),
     FxRow(Date(2010, 12, 6), V(Infinity))}

InitFx ==
    /\ retail_columns = TRUE
    /\ raw_retail_data \in BagsUpTo(FxSalesRows, MaxRows) \ {EmptyBag}
    /\ raw_uk_holidays \in HolidayTables
    /\ catalog = StagingTables \cup {"dim_calendar", "dim_product", "dim_customer",
                                     "fct_sales"}
    /\ dim_calendar = CalendarFlagged(raw_retail_data, raw_uk_holidays)
    /\ dim_product \in DimProductOutcomes(raw_retail_data)
    /\ dim_customer \in DimCustomerOutcomes(raw_retail_data)
    /\ fct_sales = FctSales(raw_retail_data, dim_calendar, dim_product, dim_customer)
    /\ raw_fx_rates \in BagsUpTo(FxObservations, MaxFx) \ {EmptyBag}
    /\ ieee_floating_point_ops \in DivisionSettings(raw_fx_rates)
    /\ daily_fx_rates = EmptyBag
    /\ fct_sales_eur = EmptyBag
    /\ agg_country_day = {}
    /\ last = NoCall
    /\ pc = "idle"
    /\ raised = NoExc

NextFx ==
    \/ create_daily_fx_rates
    \/ create_fct_sales_eur
    \/ create_agg_country_day

SpecFx == InitFx /\ [][NextFx]_vars

\* the staged observations that carry a rate, dated d or earlier
ObservedUpTo(d) ==
    {x \in DOMAIN raw_fx_rates : x.gbp_per_eur # NULL /\ x.date <= d}

\* C4: after create_daily_fx_rates, every date from the earliest observation of
\* raw_fx_rates to the latest fct_sales date has a row in daily_fx_rates (with a
\* rate: the table has no NULL rate)
C4_RateFromFirstObservation ==
    (last.op = "create_daily_fx_rates" /\ "daily_fx_rates" \in catalog) =>
        LET hi == Max({f.date : f \in DOMAIN fct_sales})
        IN  \A d \in Date(2010, 11, 30)..hi :
               ObservedUpTo(d) # {} => \E x \in DOMAIN daily_fx_rates : x.date = d

\* C5: after create_daily_fx_rates, every row (d, rate) of daily_fx_rates carries
\* the rate of an observation of the latest observed date on or before d
C5_RateOfLatestObservation ==
    (last.op = "create_daily_fx_rates" /\ "daily_fx_rates" \in catalog) =>
        \A x \in DOMAIN daily_fx_rates :
           /\ ObservedUpTo(x.date) # {}
           /\ \E o \in ObservedUpTo(x.date) :
                 /\ \A e \in ObservedUpTo(x.date) : e.date <= o.date
                 /\ o.gbp_per_eur = V(x.gbp_per_eur)

\* the (date, country) pairs of the fct_sales rows in F, the country being the one
\* dim_customer holds for the row's customer
PairsOf(F) ==
    UNION {{<<f.date, cu.country>> : cu \in {x \in dim_customer :
                                                x.customer_id = f.customer_id}} : f \in F}

\* the fct_sales rows with a row of the same invoice_no, stock_code, date and
\* customer_id in fct_sales_eur
ConvertedFacts ==
    {f \in DOMAIN fct_sales :
        \E fe \in DOMAIN fct_sales_eur :
           /\ fe.invoice_no = f.invoice_no
           /\ fe.stock_code = f.stock_code
           /\ fe.date = f.date
           /\ fe.customer_id = f.customer_id}

AggPairs == {<<a.date, a.country>> : a \in agg_country_day}

IsQuotient(q, amount, rate) ==
    /\ rate # 0
    /\ Abs(rate) # Infinity
    /\ q # NULL
    /\ q[1].den > 0
    /\ q[1].num * rate = amount * 100 * q[1].den

\* C14: right after create_fct_sales_eur, every row carries a rate that
\* daily_fx_rates holds for the row's date, its unit_price_eur and gross_amount_eur
\* are the GBP amounts divided by that rate (so that multiplying by the rate gives
\* the GBP amounts back), and no converted field is null
C14_ConvertedByDailyRate ==
    (last.op = "create_fct_sales_eur" /\ "fct_sales_eur" \in catalog) =>
        \A e \in DOMAIN fct_sales_eur :
           /\ \E x \in DOMAIN daily_fx_rates :
                 x.date = e.date /\ x.gbp_per_eur = e.fx_rate_used
           /\ IsQuotient(e.unit_price_eur, e.unit_price_gbp, e.fx_rate_used)
           /\ IsQuotient(e.gross_amount_eur, e.gross_amount_gbp, e.fx_rate_used)

\* C16: when create_daily_fx_rates has built its table and some or all fct_sales
\* rows have a date without a row in it, the call has logged the coverage warning
\* and returned without raising
C16_ShortfallOnlyWarns ==
    (/\ last.op = "create_daily_fx_rates"
     /\ "daily_fx_rates" \in catalog
     /\ MissingDates(fct_sales, daily_fx_rates) > 0) =>
        /\ FxWarning(MissingDates(fct_sales, daily_fx_rates)) \in last.warnings
        /\ last.exc = NoExc

\* the fct_sales columns of a fct_sales_eur row
GbpColumns(e) ==
    [invoice_no |-> e.invoice_no,
     stock_code |-> e.stock_code,
     customer_id |-> e.customer_id,
     date |-> e.date,
     qty |-> e.qty,
     unit_price_gbp |-> e.unit_price_gbp,
     gross_amount_gbp |-> e.gross_amount_gbp]

\* the date d has a row in daily_fx_rates
HasRate(d) == \E x \in DOMAIN daily_fx_rates : x.date = d

\* C19: right after create_fct_sales_eur, the table holds every fct_sales row whose
\* date has a rate as often as fct_sales holds it, no row of a date without a rate
\* and no other row; when every fct_sales date has a rate the two tables have the
\* same number of rows
C19_EachCoveredFactOnce ==
    (last.op = "create_fct_sales_eur" /\ "fct_sales_eur" \in catalog) =>
        /\ \A f \in DOMAIN fct_sales :
              CountWhere(fct_sales_eur, LAMBDA e : GbpColumns(e) = f)
                 = (IF HasRate(f.date) THEN fct_sales[f] ELSE 0)
        /\ \A e \in DOMAIN fct_sales_eur :
              HasRate(e.date) /\ GbpColumns(e) \in DOMAIN fct_sales
        /\ (\A f \in DOMAIN fct_sales : HasRate(f.date)) =>
              BagCardinality(fct_sales_eur) = BagCardinality(fct_sales)

\* the days of the sales date range from the first one with an observed (non-null)
\* rate on
DaysFromFirstRate ==
    LET lo == Min({f.date : f \in DOMAIN fct_sales})
        hi == Max({f.date : f \in DOMAIN fct_sales})
    IN  {d \in lo..hi : \E x \in ObservedUpTo(d) : x.date >= lo}

\* C20: right after create_daily_fx_rates, the table holds exactly one row for every
\* day from the first day of the sales date range that has a rate to the latest
\* fct_sales date, and no row for any other day, whatever raw_fx_rates holds
C20_OneRowPerDay ==
    (last.op = "create_daily_fx_rates" /\ "daily_fx_rates" \in catalog) =>
        /\ {x.date : x \in DOMAIN daily_fx_rates} = DaysFromFirstRate
        /\ \A d \in DaysFromFirstRate :
              CountWhere(daily_fx_rates, LAMBDA x : x.date = d) = 1

\* net_revenue_eur * 0.8654 differs from net_revenue_gbp by more than 10% of the
\* magnitude of net_revenue_gbp; a net_revenue_eur that is no number (NULL, inf,
\* -inf, NaN) is within no tolerance
OutOfTolerance(a) ==
    \/ a.net_revenue_eur = NULL
    \/ LET n == a.net_revenue_eur[1].num
           d == a.net_revenue_eur[1].den
       IN  \/ d = 0
           \/ Abs(n * 8654 - a.net_revenue_gbp * d * 10000)
                  > Abs(a.net_revenue_gbp) * d * 1000

\* C26: after a create_agg_country_day that ran to its end, the count reported as
\* 'Revenue mismatch' is the number of rows out of tolerance, rows of negative
\* net_revenue_gbp included (no report when the number is 0)
C26_MismatchCountsEveryRow ==
    (last.op = "create_agg_country_day" /\ last.exc = NoExc) =>
        LET n == Cardinality({a \in agg_country_day : OutOfTolerance(a)})
        IN  /\ n > 0 => <<"Revenue mismatch", n>> \in last.warnings
            /\ \A w \in last.warnings : w[1] = "Revenue mismatch" => w[2] = n

-----------------------------------------------------------------------------
(* Ingestion *)

\* the characters str.strip() takes for whitespace (str.isspace) that a string of
\* this module can hold: the space, tab, line feed, carriage return and form
\* feed, then U+000B, U+001C, U+001D, U+001E, U+001F, U+0085, U+00A0 (the
\* no-break space) and U+1680, each written as the character itself
Whitespace ==
    {" ", "\t", "\n", "\r", "\f",
     "", "", "", "", "", "", " ", " "}

RECURSIVE Strip(_)
\* str.strip(): the text without its leading and trailing whitespace
Strip(cs) ==
    IF cs = <<>> THEN cs
    ELSE IF Head(cs) \in Whitespace THEN Strip(Tail(cs))
    ELSE IF cs[Len(cs)] \in Whitespace THEN Strip(SubSeq(cs, 1, Len(cs) - 1))
    ELSE cs

\* astype(str) of a cell holding characters: an empty cell reads 'nan'
CharsAsStr(cell) == IF cell = NULL THEN <<"n", "a", "n">> ELSE cell[1]

\* astype(str).str.strip() of a cell of the columns whose text the builders only
\* compare as a whole.  The text of such a cell is the sequence of the whitespace
\* characters before its content, the content in one piece (whitespace inside
\* included) and the whitespace characters after it; an empty cell reads 'nan',
\* a cell of whitespace alone ''
WordAsStr(cell) ==
    IF cell = NULL THEN "nan"
    ELSE IF Strip(cell[1]) = <<>> THEN ""
    ELSE Strip(cell[1])[1]

\* column_mapping and the trimming of the string columns, for one row of a sheet
StagedRetailRow(x) ==
    [invoice_no |-> Strip(CharsAsStr(x.Invoice)),
     stock_code |-> WordAsStr(x.StockCode),
     description |-> WordAsStr(x.Description),
     qty |-> x.Quantity,
     invoice_ts |-> x.InvoiceDate,
     unit_price_gbp |-> x.Price,
     customer_id |-> x.CustomerID,
     country |-> WordAsStr(x.Country)]

\* a sheet as pd.read_excel returns it: header tells whether the sheet has its row
\* of column names, rows is the bag of the rows below it
Sheet(rows) == [header |-> TRUE, rows |-> rows]

\* a sheet without any cell: a DataFrame without columns
BlankSheet == [header |-> FALSE, rows |-> EmptyBag]

RECURSIVE Concat(_)
\* pd.concat of the sheets of a workbook
Concat(sheets) ==
    IF sheets = <<>> THEN EmptyBag ELSE Head(sheets).rows (+) Concat(Tail(sheets))

\* combined_df has the columns of the workbook, and not source_sheet alone
HasColumns(workbook) ==
    \E k \in 1..Len(workbook.sheets) : workbook.sheets[k].header

\* the table CREATE TABLE raw_retail_data AS SELECT * FROM combined_df leaves
StagedRetail(workbook) ==
    BagJoin(Concat(workbook.sheets), StagedRetailRow, LAMBDA x : 1)

\* ingest_retail_data(conn, excel_path), and the exception it ends with
ingest_retail_data(workbook) ==
    IF ~workbook.exists
    THEN /\ UNCHANGED <<catalog, raw_retail_data, retail_columns>>
         /\ last' = Outcome("ingest_retail_data", "FileNotFoundError", {})
    ELSE IF workbook.sheets = <<>>
    THEN \* pd.concat of no frame raises before any statement runs
         /\ UNCHANGED <<catalog, raw_retail_data, retail_columns>>
         /\ last' = Outcome("ingest_retail_data", "ValueError", {})
    ELSE /\ catalog' = catalog \cup {"raw_retail_data"}
         /\ raw_retail_data' = StagedRetail(workbook)
         /\ retail_columns' = HasColumns(workbook)
         /\ IF ~HasColumns(workbook)
            THEN \* the table has the column source_sheet alone: the count of
                 \* invoice_no LIKE 'C%' finds no such column
                 last' = Outcome("ingest_retail_data", "BinderException", {})
            ELSE IF StagedRetail(workbook) = EmptyBag
            THEN \* the columns of the empty table have the type DuckDB gives an
                 \* empty object column, and invoice_no LIKE 'C%' binds or not
                 \* with that type
                 \E exc \in {NoExc, "BinderException"} :
                    last' = Outcome("ingest_retail_data", exc, {})
            ELSE last' = Outcome("ingest_retail_data", NoExc, {})

\* datetime.MINYEAR .. datetime.MAXYEAR
DateYears == 1..9999

\* datetime.strptime(date_str, '%Y-%m-%d').date(): NULL stands for ValueError
ParseDate(ymd) ==
    IF /\ ymd[1] \in DateYears
       /\ ymd[2] \in 1..12
       /\ ymd[3] \in 1..DaysInMonth(ymd[1], ymd[2])
    THEN V(Date(ymd[1], ymd[2], ymd[3]))
    ELSE NULL

\* the Obs elements the loop reads: both attributes present and non-empty
Readable(o) == o.TIME_PERIOD # NULL /\ o.OBS_VALUE # NULL

\* the Obs elements the loop appends to fx_data: the date parses and float() accepts
\* the value ('NaN' is a float)
Valid(o) ==
    Readable(o) /\ ParseDate(o.TIME_PERIOD[1]) # NULL /\ o.OBS_VALUE[1].float

\* the staged row of a valid Obs: a NaN is stored as NULL
StagedFxRow(o) ==
    FxRow(ParseDate(o.TIME_PERIOD[1])[1],
          IF o.OBS_VALUE[1].nan THEN NULL ELSE V(o.OBS_VALUE[1].hundredths))

SkipWarning(n) == <<"Skipping invalid observation", n>>

\* the ValueError checks of ingest_fx_data before any statement runs
FxFileRejected(xml) ==
    \/ ~xml.DataSet
    \/ xml.Series = <<>>
    \/ xml.Series[1].CURRENCY # "GBP"
    \/ xml.Series[1].Obs = <<>>
    \/ \A k \in 1..Len(xml.Series[1].Obs) : ~Valid(xml.Series[1].Obs[k])

\* ingest_fx_data(conn, xml_path), and the exception it ends with
ingest_fx_data(xml) ==
    IF ~xml.exists
    THEN /\ UNCHANGED <<catalog, raw_fx_rates>>
         /\ last' = Outcome("ingest_fx_data", "FileNotFoundError", {})
    ELSE LET obs == IF xml.DataSet /\ xml.Series # <<>> /\ xml.Series[1].CURRENCY = "GBP"
                    THEN xml.Series[1].Obs ELSE <<>>
             skipped == Cardinality({k \in 1..Len(obs) :
                                        Readable(obs[k]) /\ ~Valid(obs[k])})
             warnings == IF skipped > 0 THEN {SkipWarning(skipped)} ELSE {}
         IN  IF FxFileRejected(xml)
             THEN /\ UNCHANGED <<catalog, raw_fx_rates>>
                  /\ last' = Outcome("ingest_fx_data", "ValueError", warnings)
             ELSE /\ catalog' = catalog \cup {"raw_fx_rates"}
                  /\ raw_fx_rates' =
                       BagOfSeq([k \in 1..Len(SelectSeq(obs, Valid)) |->
                                    StagedFxRow(SelectSeq(obs, Valid)[k])])
                  /\ last' = Outcome("ingest_fx_data", NoExc, warnings)

\* the holiday_date column: dropna(), the date of each cell, drop_duplicates()
StagedHolidays(cells) ==
    {DATE(c)[1] : c \in {cells.column[k] : k \in 1..Len(cells.column)} \ {NULL}}

\* ingest_holidays_data(conn, excel_path), and the exception it ends with
ingest_holidays_data(cells) ==
    IF ~cells.exists
    THEN /\ UNCHANGED <<catalog, raw_uk_holidays>>
         /\ last' = Outcome("ingest_holidays_data", "FileNotFoundError", {})
    ELSE /\ catalog' = catalog \cup {"raw_uk_holidays"}
         /\ raw_uk_holidays' = StagedHolidays(cells)
         /\ IF StagedHolidays(cells) # {}
            THEN last' = Outcome("ingest_holidays_data", NoExc, {})
            ELSE \* no check of len(clean_holidays): the empty table is created. Its
                 \* column has the type DuckDB gives an empty object column, and
                 \* the two queries that compare it with '2009-01-01' pass or fail
                 \* with that type
                 \E exc \in {NoExc, "ConversionException"} :
                    last' = Outcome("ingest_holidays_data", exc, {})

-----------------------------------------------------------------------------
(* run_pipeline *)

\* the calls of run_pipeline, in program order
Stages == <<"ingest_retail_data", "ingest_fx_data", "ingest_holidays_data">>

\* the table each call writes
StageTable ==
    [ingest_retail_data |-> "raw_retail_data",
     ingest_fx_data |-> "raw_fx_rates",
     ingest_holidays_data |-> "raw_uk_holidays"]

\* a run that logs the failure of a call and goes on with the next one
AfterCallContinues(exc, next) == next

\* try ... except Exception: raise -- where control goes after a call
AfterCall(exc, next) == IF exc = NoExc THEN next ELSE "failed"

\* the sheets of online_retail_II.xlsx
ExcelRow ==
    [Invoice |-> V(Invoice),
     StockCode |-> V(<<"A1">>),
     Description |-> V(<<"LANTERN">>),
     Quantity |-> V(6),
     InvoiceDate |-> V(Timestamp(2010, 12, 1, 8, 26)),
     Price |-> V(255),
     CustomerID |-> V(17850),
     Country |-> V(<<"United Kingdom">>)]

\* rows of a sheet: the second is the first with whitespace around its four texts,
\* the fourth has a stock code of whitespace alone
ExcelRows ==
    {ExcelRow,
     [ExcelRow EXCEPT !.Invoice = V(<<"\t">> \o Invoice \o <<" ">>),
                      !.StockCode = V(<<" ", "A1", " ">>),
                      !.Description = V(<<"LANTERN", " ", "\n">>),
                      !.Country = V(<<"\t", " ", "United Kingdom">>)],
     [ExcelRow EXCEPT !.Invoice = V(<<"", "\t">> \o Cancellation \o <<"\n">>),
                      !.Quantity = V(-6)],
     [ExcelRow EXCEPT !.StockCode = V(<<" ", "\t">>)],
     [ExcelRow EXCEPT !.Description = NULL, !.CustomerID = NULL],
     [ExcelRow EXCEPT !.StockCode = NULL, !.InvoiceDate = NULL]}

\* one sheet of up to MaxRows rows, two sheets of one row, a blank sheet alone or
\* before a sheet of one row, or no file
RetailFiles ==
    {[exists |-> TRUE, sheets |-> <<Sheet(b)>>] : b \in BagsUpTo(ExcelRows, MaxRows)}
        \cup {[exists |-> TRUE, sheets |-> <<Sheet(One(x)), Sheet(One(y))>>] :
                 x, y \in ExcelRows}
        \cup {[exists |-> TRUE, sheets |-> <<BlankSheet>>]}
        \cup {[exists |-> TRUE, sheets |-> <<BlankSheet, Sheet(One(x))>>] :
                 x \in ExcelRows}
        \cup {[exists |-> FALSE, sheets |-> <<>>]}

\* the text of an OBS_VALUE attribute: a number (in hundredths, "inf" being
\* Number(Infinity)), 'NaN', or a word float() rejects
Number(n) == V([float |-> TRUE, nan |-> FALSE, hundredths |-> n])

NaN == V([float |-> TRUE, nan |-> TRUE, hundredths |-> 0])

Text == V([float |-> FALSE, nan |-> FALSE, hundredths |-> 0])

Obs(t, v) == [TIME_PERIOD |-> t, OBS_VALUE |-> v]

\* gbp.xml
FxFile(dataset, currency, obs) ==
    [exists |-> TRUE, DataSet |-> dataset,
     Series |-> <<[CURRENCY |-> currency, Obs |-> obs]>>]

FxFiles ==
    {FxFile(TRUE, "GBP", <<Obs(V(<<2010, 12, 1>>), Number(85))>>),
     FxFile(TRUE, "GBP", <<Obs(V(<<2010, 12, 2>>), Number(90)),
                           Obs(V(<<2010, 12, 1>>), Number(85)),
                           Obs(V(<<2010, 12, 3>>), NaN)>>),
     FxFile(TRUE, "GBP", <<Obs(V(<<2010, 2, 30>>), Number(85)),
                           Obs(V(<<2010, 12, 1>>), Number(85)),
                           Obs(NULL, Number(90))>>),
     FxFile(TRUE, "GBP", <<Obs(V(<<2010, 12, 1>>), Text), Obs(V(<<2010, 12, 1>>), NULL)>>),
     FxFile(TRUE, "GBP", <<Obs(V(<<1999, 1, 4>>), Number(75)),
                           Obs(V(<<2009, 12, 31>>), Number(85)),
                           Obs(V(<<2013, 1, 1>>), Number(90)),
                           Obs(V(<<0, 1, 1>>), Number(90))>>),
     FxFile(TRUE, "GBP", <<Obs(V(<<2010, 12, 1>>), Number(0)),
                           Obs(V(<<2010, 12, 2>>), Number(Infinity)),
                           Obs(V(<<2010, 12, 3>>), Number(-85))>>),
     FxFile(TRUE, "GBP", <<>>),
     FxFile(TRUE, "USD", <<Obs(V(<<2010, 12, 1>>), Number(85))>>),
     FxFile(FALSE, "GBP", <<>>),
     [exists |-> TRUE, DataSet |-> TRUE, Series |-> <<>>],
     [exists |-> FALSE, DataSet |-> FALSE, Series |-> <<>>]}

\* the first column of ukbankholidays-jul19.xls
HolidayFiles ==
    {[exists |-> TRUE,
      column |-> <<V(Timestamp(2010, 12, 27, 0, 0)), NULL,
                   V(Timestamp(2010, 12, 28, 0, 0)),
                   V(Timestamp(2010, 12, 27, 0, 0))>>],
     [exists |-> TRUE, column |-> <<V(Timestamp(2011, 1, 3, 0, 0))>>],
     [exists |-> TRUE, column |-> <<NULL, NULL>>],
     [exists |-> FALSE, column |-> <<>>]}

\* run_pipeline is called: logging set up, "Phase 1" logged
run_pipeline ==
    /\ pc = "idle"
    /\ pc' = Stages[1]
    /\ raised' = NoExc
    /\ UNCHANGED <<catalog, raw_retail_data, retail_columns, raw_fx_rates,
                   raw_uk_holidays, dim_calendar, dim_product, dim_customer,
                   fct_sales, daily_fx_rates, fct_sales_eur, agg_country_day,
                   last, ieee_floating_point_ops>>

\* ingest_retail_data(conn, rawdir / "online_retail_II.xlsx")
run_ingest_retail_data ==
    /\ pc = Stages[1]
    /\ \E workbook \in RetailFiles : ingest_retail_data(workbook)
    /\ pc' = AfterCall(last'.exc, Stages[2])
    /\ raised' = last'.exc
    /\ UNCHANGED <<raw_fx_rates, raw_uk_holidays, dim_calendar, dim_product,
                   dim_customer, fct_sales, daily_fx_rates, fct_sales_eur,
                   agg_country_day, ieee_floating_point_ops>>

\* ingest_fx_data(conn, rawdir / "gbp.xml")
run_ingest_fx_data ==
    /\ pc = Stages[2]
    /\ \E xml \in FxFiles : ingest_fx_data(xml)
    /\ pc' = AfterCall(last'.exc, Stages[3])
    /\ raised' = last'.exc
    /\ UNCHANGED <<raw_retail_data, retail_columns, raw_uk_holidays,
                   dim_calendar, dim_product, dim_customer, fct_sales,
                   daily_fx_rates, fct_sales_eur, agg_country_day,
                   ieee_floating_point_ops>>

\* ingest_holidays_data(conn, rawdir / "ukbankholidays-jul19.xls"), then the log
\* lines of phases 2 to 5, whose builder calls are comments, and "Pipeline completed
\* successfully"
run_ingest_holidays_data ==
    /\ pc = Stages[3]
    /\ \E cells \in HolidayFiles : ingest_holidays_data(cells)
    /\ pc' = AfterCall(last'.exc, "done")
    /\ raised' = last'.exc
    /\ UNCHANGED <<raw_retail_data, retail_columns, raw_fx_rates, dim_calendar,
                   dim_product, dim_customer, fct_sales, daily_fx_rates,
                   fct_sales_eur, agg_country_day, ieee_floating_point_ops>>

\* the database run_pipeline is given: new, or left by an earlier run or build
InitRun ==
    /\ ieee_floating_point_ops \in BOOLEAN
    /\ retail_columns = TRUE
    /\ \E staged, built \in BOOLEAN :
          /\ catalog = (IF staged THEN StagingTables ELSE {})
                          \cup (IF staged /\ built THEN OutputRelations ELSE {})
          /\ raw_retail_data = IF staged THEN One(BaseRow) ELSE EmptyBag
          /\ raw_fx_rates = IF staged THEN One(FxRow(Date(2010, 12, 1), V(90)))
                            ELSE EmptyBag
          /\ raw_uk_holidays = IF staged THEN {Date(2010, 12, 27)} ELSE {}
          /\ dim_calendar = IF staged /\ built
                            THEN CalendarFlagged(raw_retail_data, raw_uk_holidays)
                            ELSE {}
          /\ dim_product \in IF staged /\ built THEN DimProductOutcomes(raw_retail_data)
                             ELSE {{}}
          /\ dim_customer \in IF staged /\ built THEN DimCustomerOutcomes(raw_retail_data)
                              ELSE {{}}
          /\ fct_sales = IF staged /\ built
                         THEN FctSales(raw_retail_data, dim_calendar, dim_product,
                                       dim_customer)
                         ELSE EmptyBag
          /\ daily_fx_rates \in IF staged /\ built
                                THEN DailyFxOutcomes(fct_sales, raw_fx_rates)
                                ELSE {EmptyBag}
          /\ fct_sales_eur = IF staged /\ built
                             THEN FctSalesEur(fct_sales, daily_fx_rates)
                             ELSE EmptyBag
          /\ agg_country_day = IF staged /\ built
                               THEN AggCountryDay(fct_sales, fct_sales_eur,
                                                  dim_customer, dim_calendar)
                               ELSE {}
    /\ last = NoCall
    /\ pc = "idle"
    /\ raised = NoExc

NextRun ==
    \/ run_pipeline
    \/ run_ingest_retail_data
    \/ run_ingest_fx_data
    \/ run_ingest_holidays_data

SpecRun == InitRun /\ [][NextRun]_vars

\* C6: when run_pipeline has logged "Pipeline completed successfully", the seven
\* output relations exist
C6_SuccessBuildsAllRelations ==
    pc = "done" => OutputRelations \subseteq catalog

\* C7: a call that raises ends the run with that exception; the step it fails in
\* changes no table of a later call and no output relation, and no step follows
C7_FailureEndsRun ==
    [][/\ pc # "failed" /\ pc # "done"
       /\ (pc # "idle" /\ last'.exc # NoExc) =>
             /\ pc' = "failed"
             /\ raised' = last'.exc
       /\ pc' = "failed" => (pc # "idle" /\ last'.exc # NoExc)
       /\ \A t \in StagingTables \cup OutputRelations :
             ((t \in catalog) # (t \in catalog') \/ Contents'[t] # Contents[t])
                => (pc # "idle" /\ t = StageTable[pc])]_vars

\* C7 witness: ingest_fx_data raised ValueError after ingest_retail_data had
\* replaced its table, in a database that held the relations of an earlier build
C7_Witness ==
    /\ pc = "failed"
    /\ raised = "ValueError"
    /\ last.op = "ingest_fx_data"
    /\ raw_retail_data # One(BaseRow)
    /\ raw_retail_data # EmptyBag
    /\ raw_fx_rates = One(FxRow(Date(2010, 12, 1), V(90)))
    /\ OutputRelations \subseteq catalog

\* C15: an ingestion of an FX file without a valid observation, or of a holiday file
\* without a valid date, raises: an FX or holiday ingestion that returned normally
\* has staged at least one row (and the run is not completed over an empty table)
C15_EmptySourceAborts ==
    /\ (last.op = "ingest_fx_data" /\ last.exc = NoExc) => raw_fx_rates # EmptyBag
    /\ (last.op = "ingest_holidays_data" /\ last.exc = NoExc) => raw_uk_holidays # {}
    /\ pc = "done" => (raw_fx_rates # EmptyBag /\ raw_uk_holidays # {})

-----------------------------------------------------------------------------
(* A store whose dimensions were built from an earlier staging snapshot *)

\* the rows of the earlier snapshot
StaleRows ==
    {BaseRow,
     [BaseRow EXCEPT !.invoice_ts = V(Timestamp(2011, 1, 4, 10, 30))],
     [BaseRow EXCEPT !.customer_id = NULL],
     [BaseRow EXCEPT !.stock_code = "B2", !.customer_id = V(12583),
                     !.country = "France"]}

InitStale ==
    /\ raw_retail_data \in RetailTables
    /\ retail_columns \in (IF raw_retail_data = EmptyBag THEN BOOLEAN ELSE {TRUE})
    /\ raw_fx_rates = One(FxRow(Date(2010, 12, 1), V(85)))
    /\ ieee_floating_point_ops \in DivisionSettings(raw_fx_rates)
    /\ raw_uk_holidays \in HolidayTables
    /\ \E old \in BagsUpTo(StaleRows, MaxStaleRows) :
          /\ catalog = StagingTables \cup {"dim_product", "dim_customer"}
                          \cup (IF RetailDates(old) = {} THEN {} ELSE {"dim_calendar"})
          /\ dim_calendar = IF RetailDates(old) = {} THEN {}
                            ELSE CalendarFlagged(old, raw_uk_holidays)
          /\ dim_product \in DimProductOutcomes(old)
          /\ dim_customer \in DimCustomerOutcomes(old)
    /\ fct_sales = EmptyBag
    /\ daily_fx_rates = EmptyBag
    /\ fct_sales_eur = EmptyBag
    /\ agg_country_day = {}
    /\ last = NoCall
    /\ pc = "idle"
    /\ raised = NoExc

NextStale ==
    \/ create_dim_calendar
    \/ create_dim_product
    \/ create_dim_customer
    \/ create_fct_sales

SpecStale == InitStale /\ [][NextStale]_vars

\* C1: right after create_fct_sales, whatever raw_retail_data and the dimensions
\* hold, every row of fct_sales has its stock_code in dim_product, its customer_id
\* in dim_customer and its date in dim_calendar (and the orphan check reports none)
C1_FactKeysResolve ==
    last.op = "create_fct_sales" =>
        /\ \A f \in DOMAIN fct_sales :
              /\ \E p \in dim_product : p.stock_code = f.stock_code
              /\ \E cu \in dim_customer : cu.customer_id = f.customer_id
              /\ \E c \in dim_calendar : c.date = f.date
        /\ last.warnings = {}

\* C1 witness: create_fct_sales built a non-empty fct_sales while the dimensions
\* lacked the keys of another staged row that passes the WHERE clause
C1_Witness ==
    /\ last.op = "create_fct_sales"
    /\ fct_sales # EmptyBag
    /\ \E r \in DOMAIN raw_retail_data :
          /\ FactEligible(r)
          /\ r.invoice_ts # NULL
          /\ SalesFanOut(r, dim_calendar, dim_product, dim_customer) = 0

\* the orphan check of the last call reported a non-zero count under the name issue
Reported(issue) == \E w \in last.warnings : w[1] = issue /\ w[2] > 0

\* C25: after a create_fct_sales that ran to its end, whenever a staged row that
\* passes the filters is left out of fct_sales because dim_product, dim_calendar or dim_customer has no
\* row for its key, the orphan check has reported a non-zero count for that
\* dimension
C25_DroppedRowsReported ==
    (last.op = "create_fct_sales" /\ last.exc = NoExc) =>
        \A r \in DOMAIN raw_retail_data :
           FactEligible(r) =>
              /\ (\A p \in dim_product : p.stock_code # r.stock_code)
                    => Reported("Missing product")
              /\ (\A c \in dim_calendar : V(c.date) # DATE(r.invoice_ts))
                    => Reported("Missing calendar")
              /\ (\A cu \in dim_customer :
                     cu.customer_id # COALESCE(r.customer_id, UNKNOWN_CUSTOMER))
                    => Reported("Missing customer")

=============================================================================
